---- MODULE Spec2Model ----
(***************************************************************************)
(* Repository-file manipulation of pkgs (cmd/add_repo.go,                  *)
(* cmd/enable_repo.go, cmd/disable_repo.go, cmd/utils.go).                 *)
(*                                                                         *)
(* Text is a sequence of one-character strings, so that Split, Join,       *)
(* TrimSpace, HasPrefix, Contains and the regular expressions of the code  *)
(* are computed character by character as Go computes them.                *)
(***************************************************************************)
EXTENDS Integers, Sequences, FiniteSets, TLC

(***************************************************************************)
(* Bounds of the model.                                                    *)
(***************************************************************************)
\* lines of an initial file are drawn from a pool; at most MaxLines of them
MaxLines == 2
\* operations performed in one behaviour
MaxSteps == 3

(***************************************************************************)
(* Go's strings package on character sequences.                            *)
(***************************************************************************)
NL == "\n"

\* unicode.IsSpace restricted to the characters the model uses
IsSpace(c) == c \in {" ", "\t", "\r", NL}

HasPrefix(s, p) == Len(p) <= Len(s) /\ SubSeq(s, 1, Len(p)) = p

HasSuffix(s, p) == Len(p) <= Len(s) /\ SubSeq(s, Len(s) - Len(p) + 1, Len(s)) = p

TrimPrefix(s, p) == IF HasPrefix(s, p) THEN SubSeq(s, Len(p) + 1, Len(s)) ELSE s

TrimSuffix(s, p) == IF HasSuffix(s, p) THEN SubSeq(s, 1, Len(s) - Len(p)) ELSE s

\* strings.Index: 0-based index of the first occurrence of sub in s, -1 if none
Index(s, sub) ==
  LET hits == {i \in 0..(Len(s) - Len(sub)) : SubSeq(s, i + 1, i + Len(sub)) = sub}
  IN IF hits = {} THEN -1 ELSE CHOOSE i \in hits : \A j \in hits : i <= j

Contains(s, sub) == Index(s, sub) >= 0

TrimSpace(s) ==
  LET keep == {i \in 1..Len(s) : ~IsSpace(s[i])}
  IN IF keep = {} THEN <<>>
     ELSE LET lo == CHOOSE i \in keep : \A j \in keep : i <= j
              hi == CHOOSE i \in keep : \A j \in keep : j <= i
          IN SubSeq(s, lo, hi)

\* strings.Split(s, "\n"): always at least one element
RECURSIVE Split(_)
Split(s) ==
  LET i == Index(s, <<NL>>)
  IN IF i < 0 THEN <<s>>
     ELSE <<SubSeq(s, 1, i)>> \o Split(SubSeq(s, i + 2, Len(s)))

\* strings.Join(lines, "\n")
RECURSIVE Join(_)
Join(lines) ==
  IF Len(lines) = 0 THEN <<>>
  ELSE IF Len(lines) = 1 THEN lines[1]
  ELSE lines[1] \o <<NL>> \o Join(Tail(lines))

(***************************************************************************)
(* Regular expressions of the code, computed position by position.         *)
(* Positions are 1-based; Go's half-open range [i, j) of 0-based offsets   *)
(* is SubSeq(s, i + 1, j).                                                 *)
(***************************************************************************)
\* a variant without the (?m)^ anchor: every position may start a match
AtLineStart_Unanchored(s, i) == i >= 1

\* (?m)^ : the position before character i is the start of a line
AtLineStart(s, i) == i = 1 \/ (i - 1 <= Len(s) /\ s[i - 1] = NL)

\* the literal lit occurs in s starting at character i
LitAt(s, i, lit) == i + Len(lit) - 1 <= Len(s) /\ SubSeq(s, i, i + Len(lit) - 1) = lit

\* (?m)^\[(.*?)] matched at character i: the position of the closing bracket,
\* the first "]" after i with no newline in between; 0 when there is no match
HeaderClose(s, i) ==
  IF ~(AtLineStart(s, i) /\ i <= Len(s) /\ s[i] = "[") THEN 0
  ELSE LET c == {j \in (i + 1)..Len(s) :
                   s[j] = "]" /\ \A k \in (i + 1)..(j - 1) : s[k] # "]" /\ s[k] # NL}
       IN IF c = {} THEN 0 ELSE CHOOSE j \in c : TRUE

\* repoHeaderPattern.FindAllStringSubmatchIndex(content, -1): the starts of the
\* matches, in text order
HeaderStarts(s) ==
  LET hs == {i \in 1..Len(s) : HeaderClose(s, i) > 0}
      RECURSIVE Sorted(_)
      Sorted(S) == IF S = {} THEN <<>>
                   ELSE LET m == CHOOSE x \in S : \A y \in S : x <= y
                        IN <<m>> \o Sorted(S \ {m})
  IN Sorted(hs)

\* the id captured by the header match starting at character i
HeaderId(s, i) == SubSeq(s, i + 1, HeaderClose(s, i) - 1)

\* extractAllRepoSections of cmd/utils.go: a map from id to section text; the
\* loop assigns in text order, so a repeated id keeps its last section
extractAllRepoSections(content) ==
  LET matches == HeaderStarts(content)
      n == Len(matches)
      sectionEnd(k) == IF k < n THEN matches[k + 1] - 1 ELSE Len(content)
      body(k) == SubSeq(content, matches[k], sectionEnd(k))
      ids == {HeaderId(content, matches[k]) : k \in 1..n}
      lastOf(id) == CHOOSE k \in 1..n :
                      /\ HeaderId(content, matches[k]) = id
                      /\ \A j \in 1..n : HeaderId(content, matches[j]) = id => j <= k
  IN [id \in ids |-> body(lastOf(id))]

\* (?m)^\[ID\](.*?)(?:^\[|\z) tried at character i: the 1-based position of the
\* last character of the match, or -1. The lazy .*? takes k characters, none a
\* newline, k as small as possible; the alternative ^\[ is tried before \z.
SectionMatchEnd(s, i, id) ==
  LET hdr == <<"[">> \o id \o <<"]">>
      q0 == i + Len(hdr)
      ok(k) == /\ \A j \in q0..(q0 + k - 1) : s[j] # NL
               /\ \/ (AtLineStart(s, q0 + k) /\ q0 + k <= Len(s) /\ s[q0 + k] = "[")
                  \/ q0 + k = Len(s) + 1
      ks == {k \in 0..(Len(s) + 1 - q0) : ok(k)}
  IN IF ~(AtLineStart(s, i) /\ LitAt(s, i, hdr)) \/ ks = {} THEN -1
     ELSE LET k == CHOOSE x \in ks : \A y \in ks : x <= y
          IN IF AtLineStart(s, q0 + k) /\ q0 + k <= Len(s) /\ s[q0 + k] = "["
             THEN q0 + k
             ELSE q0 + k - 1

\* extractRepoSection: matches[0] of the leftmost match, "" when none
extractRepoSection(content, repoID) ==
  LET starts == {i \in 1..Len(content) : SectionMatchEnd(content, i, repoID) >= 0}
  IN IF starts = {} THEN <<>>
     ELSE LET i == CHOOSE x \in starts : \A y \in starts : x <= y
          IN SubSeq(content, i, SectionMatchEnd(content, i, repoID))

\* a variant of the pattern without the closing bracket, (?m)^\[ID
RepoIDMatch_OpenOnly(content, repoID) ==
  \E i \in 1..Len(content) :
     AtLineStart(content, i) /\ LitAt(content, i, <<"[">> \o repoID)

\* repoIDPattern.MatchString(content) of findRepoFile: (?m)^\[ID\]
RepoIDMatch(content, repoID) ==
  \E i \in 1..Len(content) :
     AtLineStart(content, i) /\ LitAt(content, i, <<"[">> \o repoID \o <<"]">>)

\* setRepoEnabled: one pass over the lines, carrying inRepo and enabledFound
RECURSIVE SetRepoLoop(_, _, _, _, _, _)
SetRepoLoop(lines, i, repoID, enabledValue, st, result) ==
  IF i > Len(lines)
  THEN IF st.inRepo /\ ~st.enabledFound
       THEN result \o << <<"e","n","a","b","l","e","d","=">> \o enabledValue >>
       ELSE result
  ELSE
    LET line == lines[i]
        trimmedLine == TrimSpace(line)
        hdr == <<"[">> \o repoID \o <<"]">>
        key == <<"e","n","a","b","l","e","d","=">>
    IN IF trimmedLine = hdr
       THEN SetRepoLoop(lines, i + 1, repoID, enabledValue,
                        [st EXCEPT !.inRepo = TRUE], result \o <<line>>)
       ELSE IF st.inRepo /\ HasPrefix(trimmedLine, <<"[">>)
       THEN SetRepoLoop(lines, i + 1, repoID, enabledValue,
                        [st EXCEPT !.inRepo = FALSE],
                        IF st.enabledFound THEN result \o <<line>>
                        ELSE result \o <<key \o enabledValue, line>>)
       ELSE IF st.inRepo
       THEN IF HasPrefix(trimmedLine, key)
            THEN IF ~st.enabledFound
                 THEN SetRepoLoop(lines, i + 1, repoID, enabledValue,
                                  [st EXCEPT !.enabledFound = TRUE],
                                  result \o <<key \o enabledValue>>)
                 ELSE SetRepoLoop(lines, i + 1, repoID, enabledValue, st, result)
            ELSE SetRepoLoop(lines, i + 1, repoID, enabledValue, st, result \o <<line>>)
       ELSE SetRepoLoop(lines, i + 1, repoID, enabledValue, st, result \o <<line>>)

\* a variant that rewrites every enabled= line of the section and removes none
setRepoEnabled_KeepsEveryKey(content, repoID, enable) ==
  LET lines == Split(content)
      value == IF enable THEN <<"1">> ELSE <<"0">>
      key == <<"e", "n", "a", "b", "l", "e", "d", "=">>
      inSection(k) ==
        \E h \in 1..(k - 1) :
           /\ TrimSpace(lines[h]) = <<"[">> \o repoID \o <<"]">>
           /\ \A m \in (h + 1)..k : ~HasPrefix(TrimSpace(lines[m]), <<"[">>)
  IN Join([k \in 1..Len(lines) |->
            IF inSection(k) /\ HasPrefix(TrimSpace(lines[k]), key)
            THEN key \o value ELSE lines[k]])

\* a variant that puts a missing key on the line right after the header
setRepoEnabled_KeyAfterHeader(content, repoID, enable) ==
  LET lines == Split(content)
      value == IF enable THEN <<"1">> ELSE <<"0">>
      key == <<"e", "n", "a", "b", "l", "e", "d", "=">>
      normal == SetRepoLoop(lines, 1, repoID, value,
                            [inRepo |-> FALSE, enabledFound |-> FALSE], <<>>)
      headers == {h \in 1..Len(lines) : TrimSpace(lines[h]) = <<"[">> \o repoID \o <<"]">>}
      h0 == CHOOSE h \in headers : \A m \in headers : h <= m
  IN IF headers = {} \/ Len(normal) = Len(lines) THEN Join(normal)
     ELSE Join(SubSeq(lines, 1, h0) \o <<key \o value>> \o SubSeq(lines, h0 + 1, Len(lines)))

setRepoEnabled(content, repoID, enable) ==
  Join(SetRepoLoop(Split(content), 1, repoID,
                   IF enable THEN <<"1">> ELSE <<"0">>,
                   [inRepo |-> FALSE, enabledFound |-> FALSE], <<>>))

(***************************************************************************)
(* Names, paths and file contents the behaviours draw from.                *)
(***************************************************************************)
A  == <<"a">>
B  == <<"b">>
AB == <<"a", "b">>

\* getRepoConfig: fileExtension of each family; the base directory is implicit,
\* a path is the file's name inside it
AptExt == <<".", "l", "i", "s", "t">>
YumExt == <<".", "r", "e", "p", "o">>
ApkRepositories == <<"r", "e", "p", "o", "s", "i", "t", "o", "r", "i", "e", "s">>

EnabledKey == <<"e", "n", "a", "b", "l", "e", "d", "=">>

\* the header line of section id
Header(id) == <<"[">> \o id \o <<"]">>

\* repository lines given to add on a Debian-like host
DebX  == <<"d", "e", "b", " ", "x">>
SpDebX == <<" ">> \o DebX
AptRepoLines == {DebX, SpDebX}

\* lines of an initial .list file
AptPool == {DebX, <<"#", " ">> \o DebX, <<"#">> \o DebX, SpDebX, <<"#", " ", "c">>, <<>>}

\* lines of an initial .repo file
YumPool == {<<"[", "a", "]">>, <<"[", "b", "]">>, EnabledKey \o <<"1">>,
            <<"n", "a", "m", "e", "=", "a">>, <<>>}

\* urls and lines of the Alpine repositories file
UrlA == <<"h", "/", "a">>
UrlB == <<"h", "/", "b">>
ApkPool == {<<"#", " ">> \o A, UrlA, <<"#", " ">> \o UrlA, <<"#", "#">> \o UrlA, <<>>}

\* every text of at most MaxLines lines of the pool, joined by newlines
RECURSIVE LinesUpTo(_, _)
LinesUpTo(pool, n) ==
  IF n = 0 THEN {<<>>}
  ELSE LET shorter == LinesUpTo(pool, n - 1)
       IN shorter \cup {ls \o <<l>> : ls \in shorter, l \in pool}

Texts(pool) == {Join(ls) : ls \in LinesUpTo(pool, MaxLines)}

\* a file: absent, or present with its whole content
Missing == [exists |-> FALSE, content |-> <<>>]
File(c) == [exists |-> TRUE, content |-> c]

Families == {"debian", "redhat", "alpine"}

\* the .repo files of /etc/yum.repos.d in the order filepath.Glob lists them
\* (sorted), and one file of the directory the pattern *.repo does not match
YumA == A \o YumExt
YumB == B \o YumExt
YumOther == A \o AptExt
YumListing == <<YumOther, YumA, YumB>>

Paths(family) ==
  CASE family = "debian" -> {A \o AptExt}
    [] family = "redhat" -> {YumA, YumOther, YumB}
    [] family = "alpine" -> {ApkRepositories}

\* the scenario of the documentation: docker.repo
DockerId == <<"d", "o", "c", "k", "e", "r", "-", "c", "e", "-", "s", "t", "a", "b", "l", "e">>
DockerRepo ==
  Join(<< <<"[">> \o DockerId \o <<"]">>,
          <<"n", "a", "m", "e", "=", "D", "o", "c", "k", "e", "r">>,
          <<"b", "a", "s", "e", "u", "r", "l", "=", "h", "t", "t", "p", "s", ":", "/", "/", "x">>,
          EnabledKey \o <<"1">>,
          <<>> >>)

(***************************************************************************)
(* Collaborators: the confirmation prompt and the outcome of an operation. *)
(***************************************************************************)
\* what the operator may type at the prompt: the line without its newline
Responses == {<<"y">>, <<"Y">>, <<"n">>, <<>>, <<"y", " ", "n">>}

\* fmt.Scanln(&response) on the typed line: leading spaces are skipped and
\* the first space-delimited word is stored; what follows the word makes Scanln
\* return an error, which the caller ignores, with the word already stored
Scanln(line) ==
  LET starts == {i \in 1..Len(line) : ~IsSpace(line[i])}
  IN IF starts = {} THEN <<>>
     ELSE LET i == CHOOSE x \in starts : \A y \in starts : x <= y
              ends == {j \in i..Len(line) : \A k \in i..j : ~IsSpace(line[k])}
          IN SubSeq(line, i, CHOOSE j \in ends : \A k \in ends : k <= j)

\* strings.ToLower on the characters the prompt can receive
ToLower(s) == [i \in 1..Len(s) |-> IF s[i] = "Y" THEN "y" ELSE IF s[i] = "N" THEN "n" ELSE s[i]]

\* askForConfirmation: true when the scanned word is a case-insensitive "y"
askForConfirmation(response) == ToLower(Scanln(response)) = <<"y">>

\* the outcome of a mutator: the files afterwards, the error ("" is nil), whether
\* a file was written, whether the operator was asked, the file it targeted and
\* the content it computed for that file (<<>> when it computed none)
Outcome(files, err, wrote, asked, path, content) ==
  [fs |-> files, err |-> err, wrote |-> wrote, asked |-> asked, path |-> path,
   content |-> content]

\* writeFileContent / os.WriteFile: the file holds exactly content afterwards
WriteFile(files, path, content) == [files EXCEPT ![path] = File(content)]

MapLines(lines, F(_)) == [i \in 1..Len(lines) |-> F(lines[i])]

(***************************************************************************)
(* Debian-like family: /etc/apt/sources.list.d/<name>.list                 *)
(***************************************************************************)
\* a variant that overwrites an existing file without asking
addRepoApt_NoConfirm(files, name, repoLine, response) ==
  LET repoPath == name \o AptExt
      newContent == repoLine \o <<NL>>
  IN IF files[repoPath].exists /\ Contains(files[repoPath].content, repoLine)
     THEN Outcome(files, "", FALSE, FALSE, repoPath, newContent)
     ELSE Outcome(WriteFile(files, repoPath, newContent), "", TRUE, FALSE, repoPath, newContent)

addRepoApt(files, name, repoLine, response) ==
  LET repoPath == name \o AptExt
      newContent == repoLine \o <<NL>>
      write == Outcome(WriteFile(files, repoPath, newContent), "", TRUE,
                       files[repoPath].exists, repoPath, newContent)
  IN IF files[repoPath].exists
     THEN IF Contains(files[repoPath].content, repoLine)
          THEN Outcome(files, "", FALSE, FALSE, repoPath, newContent)
          ELSE IF ~askForConfirmation(response)
          THEN Outcome(files, "cancelled", FALSE, TRUE, repoPath, newContent)
          ELSE write
     ELSE write

\* the test of enableRepoApt on one line
AptCommented(line) ==
  \/ HasPrefix(TrimSpace(line), <<"#", " ", "d", "e", "b">>)
  \/ HasPrefix(TrimSpace(line), <<"#", "d", "e", "b">>)

AptUncomment(line) ==
  IF AptCommented(line) THEN TrimPrefix(TrimPrefix(line, <<"#", " ">>), <<"#">>) ELSE line

enableRepoApt(files, name) ==
  LET repoPath == name \o AptExt
      lines == Split(files[repoPath].content)
      modified == \E i \in 1..Len(lines) : AptCommented(lines[i])
      newContent == Join(MapLines(lines, AptUncomment))
  IN IF ~files[repoPath].exists THEN Outcome(files, "not_exist", FALSE, FALSE, repoPath, <<>>)
     ELSE IF ~modified THEN Outcome(files, "", FALSE, FALSE, repoPath, newContent)
     ELSE Outcome(WriteFile(files, repoPath, newContent), "", TRUE, FALSE, repoPath, newContent)

\* the test of disableRepoApt on one line
AptActive(line) == TrimSpace(line) # <<>> /\ ~HasPrefix(TrimSpace(line), <<"#">>)

AptComment(line) == IF AptActive(line) THEN <<"#", " ">> \o line ELSE line

disableRepoApt(files, name) ==
  LET repoPath == name \o AptExt
      lines == Split(files[repoPath].content)
      modified == \E i \in 1..Len(lines) : AptActive(lines[i])
      newContent == Join(MapLines(lines, AptComment))
  IN IF ~files[repoPath].exists THEN Outcome(files, "not_exist", FALSE, FALSE, repoPath, <<>>)
     ELSE IF ~modified THEN Outcome(files, "", FALSE, FALSE, repoPath, newContent)
     ELSE Outcome(WriteFile(files, repoPath, newContent), "", TRUE, FALSE, repoPath, newContent)

(***************************************************************************)
(* RedHat-like family: /etc/yum.repos.d/*.repo                             *)
(***************************************************************************)
\* a variant of the scan that keeps going and reports the last match
RECURSIVE FindFrom_LastMatch(_, _, _, _)
FindFrom_LastMatch(files, k, fileExt, repoID) ==
  IF k > Len(YumListing) THEN [file |-> <<>>, found |-> FALSE]
  ELSE LET repoFile == YumListing[k]
           later == FindFrom_LastMatch(files, k + 1, fileExt, repoID)
       IN IF later.found THEN later
          ELSE IF /\ files[repoFile].exists
                  /\ HasSuffix(repoFile, fileExt)
                  /\ RepoIDMatch(files[repoFile].content, repoID)
          THEN [file |-> repoFile, found |-> TRUE]
          ELSE later

\* findRepoFile: the first file of the listing that matches *<fileExt>, can be
\* read and has a line starting with [repoID]
RECURSIVE FindFrom(_, _, _, _)
FindFrom(files, k, fileExt, repoID) ==
  IF k > Len(YumListing) THEN [file |-> <<>>, found |-> FALSE]
  ELSE LET repoFile == YumListing[k]
       IN IF /\ files[repoFile].exists
             /\ HasSuffix(repoFile, fileExt)
             /\ RepoIDMatch(files[repoFile].content, repoID)
          THEN [file |-> repoFile, found |-> TRUE]
          ELSE FindFrom(files, k + 1, fileExt, repoID)

\* filepath.Glob ignores I/O errors: a directory that cannot be listed lists as
\* empty. Its only error is a malformed pattern, and the pattern is built from
\* the fixed base directory and extension, so err is always nil ("").
findRepoFile(dirState, files, fileExt, repoID) ==
  IF dirState # "ok" THEN [file |-> <<>>, found |-> FALSE, err |-> ""]
  ELSE FindFrom(files, 1, fileExt, repoID) @@ [err |-> ""]

\* a variant that writes the file back without comparing it with what it read
SetRepoDnfYum_AlwaysWrites(dirState, files, name, enable) ==
  LET loc == findRepoFile(dirState, files, YumExt, name)
      newContent == setRepoEnabled(files[loc.file].content, name, enable)
  IN IF ~loc.found THEN Outcome(files, "not_found", FALSE, FALSE, <<>>, <<>>)
     ELSE Outcome(WriteFile(files, loc.file, newContent), "", TRUE, FALSE, loc.file, newContent)

\* the body shared by enableRepoDnfYum (enable = TRUE) and disableRepoDnfYum
SetRepoDnfYum(dirState, files, name, enable) ==
  LET loc == findRepoFile(dirState, files, YumExt, name)
      content == files[loc.file].content
      newContent == setRepoEnabled(content, name, enable)
  IN IF loc.err # "" THEN Outcome(files, loc.err, FALSE, FALSE, <<>>, <<>>)
     ELSE IF ~loc.found THEN Outcome(files, "not_found", FALSE, FALSE, <<>>, <<>>)
     ELSE IF newContent = content THEN Outcome(files, "", FALSE, FALSE, loc.file, newContent)
     ELSE Outcome(WriteFile(files, loc.file, newContent), "", TRUE, FALSE, loc.file, newContent)

enableRepoDnfYum(dirState, files, name) == SetRepoDnfYum(dirState, files, name, TRUE)

disableRepoDnfYum(dirState, files, name) == SetRepoDnfYum(dirState, files, name, FALSE)

\* fmt.Sprintf("[%s]\nname=%s\nbaseurl=%s\nenabled=1\ngpgcheck=0\n", name, name, url)
SynthesizedRepo(name, url) ==
  Join(<< <<"[">> \o name \o <<"]">>,
          <<"n", "a", "m", "e", "=">> \o name,
          <<"b", "a", "s", "e", "u", "r", "l", "=">> \o url,
          EnabledKey \o <<"1">>,
          <<"g", "p", "g", "c", "h", "e", "c", "k", "=", "0">>,
          <<>> >>)

\* addRepoDnfYum; download is what curl left in the temporary file, or its failure
addRepoDnfYum(files, name, url, response, download) ==
  LET destPath == name \o YumExt
      fromUrl == HasSuffix(url, YumExt)
      repoContent == IF fromUrl THEN download.content ELSE SynthesizedRepo(name, url)
  IN IF fromUrl /\ ~download.ok THEN Outcome(files, "download", FALSE, FALSE, destPath, <<>>)
     ELSE IF files[destPath].exists /\ ~askForConfirmation(response)
     THEN Outcome(files, "cancelled", FALSE, TRUE, destPath, repoContent)
     ELSE Outcome(WriteFile(files, destPath, repoContent), "", TRUE,
                  files[destPath].exists, destPath, repoContent)

(***************************************************************************)
(* Alpine-like family: /etc/apk/repositories                               *)
(***************************************************************************)
\* a variant that looks for the url as a whole line instead of as a substring
addRepoAlpine_WholeLine(files, name, url) ==
  LET repoFile == ApkRepositories
      content == files[repoFile].content
      lines == Split(content)
      newContent == content \o <<NL, "#", " ">> \o name \o <<NL>> \o url \o <<NL>>
  IN IF ~files[repoFile].exists THEN Outcome(files, "not_exist", FALSE, FALSE, repoFile, <<>>)
     ELSE IF \E i \in 1..Len(lines) : lines[i] = url
     THEN Outcome(files, "", FALSE, FALSE, repoFile, <<>>)
     ELSE Outcome(WriteFile(files, repoFile, newContent), "", TRUE, FALSE, repoFile, newContent)

addRepoAlpine(files, name, url) ==
  LET repoFile == ApkRepositories
      content == files[repoFile].content
      repoLine == <<NL, "#", " ">> \o name \o <<NL>> \o url \o <<NL>>
      newContent == content \o repoLine
  IN IF ~files[repoFile].exists THEN Outcome(files, "not_exist", FALSE, FALSE, repoFile, <<>>)
     ELSE IF Contains(content, url) THEN Outcome(files, "", FALSE, FALSE, repoFile, <<>>)
     ELSE Outcome(WriteFile(files, repoFile, newContent), "", TRUE, FALSE, repoFile, newContent)

\* a variant of the loop that compares the name line without trimming it
RECURSIVE ApkEnableLoop_ExactName(_, _, _, _)
ApkEnableLoop_ExactName(lines, i, name, modified) ==
  IF i > Len(lines) THEN [lines |-> lines, modified |-> modified]
  ELSE IF /\ lines[i] = <<"#", " ">> \o name
          /\ i + 1 <= Len(lines)
          /\ HasPrefix(TrimSpace(lines[i + 1]), <<"#">>)
       THEN ApkEnableLoop_ExactName(
              [lines EXCEPT ![i + 1] = TrimPrefix(TrimSpace(lines[i + 1]), <<"#">>)],
              i + 2, name, TRUE)
       ELSE ApkEnableLoop_ExactName(lines, i + 1, name, modified)

\* the loop of enableRepoAlpine from 1-based index i on, editing lines in place;
\* returns the lines and whether one was modified
RECURSIVE ApkEnableLoop(_, _, _, _)
ApkEnableLoop(lines, i, name, modified) ==
  IF i > Len(lines) THEN [lines |-> lines, modified |-> modified]
  ELSE IF /\ TrimSpace(lines[i]) = <<"#", " ">> \o name
          /\ i + 1 <= Len(lines)
          /\ HasPrefix(TrimSpace(lines[i + 1]), <<"#">>)
       THEN ApkEnableLoop([lines EXCEPT ![i + 1] = TrimPrefix(TrimSpace(lines[i + 1]), <<"#">>)],
                          i + 2, name, TRUE)
       ELSE ApkEnableLoop(lines, i + 1, name, modified)

enableRepoAlpine(files, name) ==
  LET repoFile == ApkRepositories
      r == ApkEnableLoop(Split(files[repoFile].content), 1, name, FALSE)
  IN IF ~files[repoFile].exists THEN Outcome(files, "not_exist", FALSE, FALSE, repoFile, <<>>)
     ELSE IF ~r.modified THEN Outcome(files, "not_found", FALSE, FALSE, repoFile, <<>>)
     ELSE Outcome(WriteFile(files, repoFile, Join(r.lines)), "", TRUE, FALSE, repoFile,
                  Join(r.lines))

\* the test of disableRepoAlpine on one line
ApkActive(line, name) ==
  /\ TrimSpace(line) # <<>>
  /\ ~HasPrefix(TrimSpace(line), <<"#">>)
  /\ Contains(TrimSpace(line), <<"/">> \o name)

\* a variant that comments out the first matching line only
disableRepoAlpine_FirstOnly(files, name) ==
  LET repoFile == ApkRepositories
      lines == Split(files[repoFile].content)
      hits == {i \in 1..Len(lines) : ApkActive(lines[i], name)}
      first == CHOOSE i \in hits : \A j \in hits : i <= j
      commented == [lines EXCEPT ![first] = <<"#", " ">> \o @]
  IN IF ~files[repoFile].exists THEN Outcome(files, "read", FALSE, FALSE, repoFile, <<>>)
     ELSE IF hits = {} THEN Outcome(files, "not_found", FALSE, FALSE, repoFile, <<>>)
     ELSE Outcome(WriteFile(files, repoFile, Join(commented)), "", TRUE, FALSE, repoFile,
                  Join(commented))

disableRepoAlpine(files, name) ==
  LET repoFile == ApkRepositories
      lines == Split(files[repoFile].content)
      modified == \E i \in 1..Len(lines) : ApkActive(lines[i], name)
      commented == [i \in 1..Len(lines) |->
                      IF ApkActive(lines[i], name) THEN <<"#", " ">> \o lines[i] ELSE lines[i]]
  IN IF ~files[repoFile].exists THEN Outcome(files, "read", FALSE, FALSE, repoFile, <<>>)
     ELSE IF ~modified THEN Outcome(files, "not_found", FALSE, FALSE, repoFile, <<>>)
     ELSE Outcome(WriteFile(files, repoFile, Join(commented)), "", TRUE, FALSE, repoFile,
                  Join(commented))

(***************************************************************************)
(* The regex-based rewriters: enableRepoInContent and disableRepoInContent.*)
(***************************************************************************)
\* the first position at or after from where lit occurs in s, or 0
FirstAt(s, lit, from) ==
  LET hits == {p \in from..Len(s) : LitAt(s, p, lit)}
  IN IF hits = {} THEN 0 ELSE CHOOSE p \in hits : \A q \in hits : p <= q

\* ReplaceAllString of (\[ID\](?:.*\n)*?.*?)enabled=V by ${1}enabled=W, on s from
\* position from. A match starts at an occurrence of [ID], anywhere in a line;
\* the lazy (?:.*\n)*?.*? takes as little as possible, whole lines included, so
\* the match ends with the first enabled=V that follows the header.
RECURSIVE ReplaceKeyAfterHeader(_, _, _, _, _)
ReplaceKeyAfterHeader(s, from, hdr, old, new) ==
  LET h == FirstAt(s, hdr, from)
      k == IF h = 0 THEN 0 ELSE FirstAt(s, old, h + Len(hdr))
  IN IF k = 0 THEN SubSeq(s, from, Len(s))
     ELSE SubSeq(s, from, k - 1) \o new \o ReplaceKeyAfterHeader(s, k + Len(old), hdr, old, new)

\* ReplaceAllString of (\[ID\]\n) by ${1}enabled=W\n, on s from position from
RECURSIVE InsertAfterHeader(_, _, _, _)
InsertAfterHeader(s, from, hdr, line) ==
  LET h == FirstAt(s, hdr, from)
  IN IF h = 0 THEN SubSeq(s, from, Len(s))
     ELSE SubSeq(s, from, h + Len(hdr) - 1) \o line
            \o InsertAfterHeader(s, h + Len(hdr), hdr, line)

\* the body shared by the two rewriters: old is the value sought, new the value set
SetInContent(content, repoID, old, new) ==
  LET hdr == Header(repoID)
      h == FirstAt(content, hdr, 1)
  IN IF h # 0 /\ FirstAt(content, EnabledKey \o old, h + Len(hdr)) # 0
     THEN ReplaceKeyAfterHeader(content, 1, hdr, EnabledKey \o old, EnabledKey \o new)
     ELSE IF FirstAt(content, hdr \o <<NL>>, 1) # 0
     THEN InsertAfterHeader(content, 1, hdr \o <<NL>>, EnabledKey \o new \o <<NL>>)
     ELSE content

enableRepoInContent(content, repoID) == SetInContent(content, repoID, <<"0">>, <<"1">>)

disableRepoInContent(content, repoID) == SetInContent(content, repoID, <<"1">>, <<"0">>)

(***************************************************************************)
(* I/O failures. A fault is the one system call of the operation that      *)
(* fails: os.MkdirAll, os.CreateTemp, reading a file, opening the target   *)
(* for writing, writing to it once it is open, or an external command.     *)
(***************************************************************************)
Faults == {"none", "mkdir", "mktemp", "read", "open", "write", "exec"}

\* an outcome on which the fault struck
Struck(o, fault) == o @@ [fault |-> fault]

\* os.WriteFile that fails. It opens with O_WRONLY|O_CREATE|O_TRUNC and then
\* writes: when the open fails the file is as it was; when the write fails the
\* file is already truncated and holds a proper prefix of content.
FailedWrite(files, path, content, fault) ==
  IF fault = "open" THEN {files}
  ELSE {[files EXCEPT ![path] = File(SubSeq(content, 1, k))] :
          k \in {0, Len(content) - 1} \cap Nat}

\* the outcomes of a mutator under a fault, from its outcome o without faults:
\* reads tells whether it reads its target; the write is its last step
IOOutcomes(files, o, fault, reads) ==
  IF fault = "read" /\ reads
  THEN {Struck(Outcome(files, "read", FALSE, FALSE, o.path, <<>>), fault)}
  ELSE IF fault \in {"open", "write"} /\ o.wrote
  THEN {Struck(Outcome(f, "write", FALSE, o.asked, o.path, o.content), fault) :
          f \in FailedWrite(files, o.path, o.content, fault)}
  ELSE {o}

\* ensureDirExists / os.MkdirAll: a missing directory is created
EnsureDir(dirState) == IF dirState = "missing" THEN "ok" ELSE dirState

\* filepath.Base of a url: what follows its last slash
Base(s) ==
  LET slashes == {i \in 1..Len(s) : s[i] = "/"}
  IN IF slashes = {} THEN s
     ELSE SubSeq(s, (CHOOSE i \in slashes : \A j \in slashes : j <= i) + 1, Len(s))

\* addRepoApt with its ensureDirExists and its I/O failures
addRepoAptIO(dirState, files, name, repoLine, response, fault) ==
  IF fault = "mkdir"
  THEN {Struck(Outcome(files, "mkdir", FALSE, FALSE, <<>>, <<>>), fault)}
  ELSE {o @@ [dir |-> EnsureDir(dirState)] :
          o \in IOOutcomes(files, addRepoApt(files, name, repoLine, response), fault,
                           files[name \o AptExt].exists)}

Curl(url) == <<"curl", url>>

\* a variant that removes the temporary file on the success path only
RemoveTemp_OnSuccess(r) == IF r.tmpMade /\ r.err = "" THEN [r EXCEPT !.tmp = FALSE] ELSE r

\* defer os.Remove(tempFile.Name()): runs when addRepoDnfYum returns, on every
\* path after the temporary file was created
RemoveTemp(r) == IF r.tmpMade THEN [r EXCEPT !.tmp = FALSE] ELSE r

\* addRepoDnfYum with its ensureDirExists, its temporary file and its I/O
\* failures; tmpState tells whether a temporary file exists beforehand
addRepoDnfYumIO(dirState, tmpState, files, name, url, response, download, fault) ==
  LET destPath == name \o YumExt
      fromUrl == HasSuffix(url, YumExt)
      repoContent == IF fromUrl THEN download.content ELSE SynthesizedRepo(name, url)
      ran == IF fromUrl THEN <<Curl(url)>> ELSE <<>>
      ret(o, made, started) ==
        o @@ [tmpMade |-> made, tmp |-> (tmpState \/ made), procs |-> started,
              dir |-> IF fault = "mkdir" THEN dirState ELSE EnsureDir(dirState)]
      fail(err, made, started) ==
        ret(Struck(Outcome(files, err, FALSE, FALSE, destPath, <<>>), fault), made, started)
      noDownload == ret(Outcome(files, "download", FALSE, FALSE, destPath, <<>>), TRUE, ran)
      store ==
        IF files[destPath].exists /\ ~askForConfirmation(response)
        THEN {ret(Outcome(files, "cancelled", FALSE, TRUE, destPath, repoContent), fromUrl, ran)}
        ELSE IF fault \in {"open", "write"}
        THEN {ret(Struck(Outcome(f, "write", FALSE, files[destPath].exists, destPath,
                                 repoContent), fault), fromUrl, ran) :
                f \in FailedWrite(files, destPath, repoContent, fault)}
        ELSE {ret(Outcome(WriteFile(files, destPath, repoContent), "", TRUE,
                          files[destPath].exists, destPath, repoContent), fromUrl, ran)}
      body ==
        IF fault = "mkdir" THEN {fail("mkdir", FALSE, <<>>)}
        ELSE IF ~fromUrl THEN store
        ELSE IF fault = "mktemp" THEN {fail("mktemp", FALSE, <<>>)}
        ELSE IF ~download.ok THEN {noDownload}
        ELSE IF fault = "read" THEN {fail("read", TRUE, ran)}
        ELSE store
  IN {RemoveTemp(r) : r \in body}

\* addRepoHomebrew: runCommand("brew", "tap", url)
addRepoHomebrew(files, url, fault) ==
  Outcome(files, IF fault = "exec" THEN "exec" ELSE "", FALSE, FALSE, <<>>, <<>>)
    @@ [procs |-> << <<"brew", "tap", url>> >>,
        fault |-> IF fault = "exec" THEN fault ELSE "none"]

\* a variant that prints and also runs the native tool
Message_RunsTool(files, msg) ==
  Outcome(files, "", FALSE, FALSE, <<>>, <<>>) @@ [msg |-> msg, procs |-> << <<msg>> >>]

\* a handler that only prints
Message(files, msg) == Outcome(files, "", FALSE, FALSE, <<>>, <<>>) @@ [msg |-> msg]

(***************************************************************************)
(* The command handlers: Run of addRepoCmd, enableRepoCmd, disableRepoCmd, *)
(* from the argument list to the mutator of the detected family. Each      *)
(* yields the set of outcomes the fault allows.                            *)
(***************************************************************************)
HostFamilies == {"debian", "redhat", "alpine", "arch", "macos"}

PacmanConf == <<"p", "a", "c", "m", "a", "n", ".", "c", "o", "n", "f">>

WithArgs(outcomes, args) == {o @@ [args |-> args] : o \in outcomes}

addRepoCmd(pm, dirState, tmpState, files, args, response, download, fault) ==
  LET oneArg == pm = "redhat" /\ Len(args) = 1 /\ HasSuffix(args[1], YumExt)
      name == IF oneArg THEN TrimSuffix(Base(args[1]), YumExt) ELSE args[1]
      url == IF oneArg THEN args[1] ELSE args[2]
  IN WithArgs(
       IF ~oneArg /\ Len(args) # 2 THEN {Message(files, "usage")}
       ELSE CASE pm = "debian" ->
                   addRepoAptIO(dirState, files, name, url, response, fault)
              [] pm = "redhat" ->
                   addRepoDnfYumIO(dirState, tmpState, files, name, url, response,
                                   download, fault)
              [] pm = "alpine" ->
                   IOOutcomes(files, addRepoAlpine(files, name, url), fault,
                              files[ApkRepositories].exists)
              [] pm = "arch" -> {Message(files, "manual")}
              [] pm = "macos" -> {addRepoHomebrew(files, url, fault)},
       args)

\* the switch shared by enableRepoCmd (enable = TRUE) and disableRepoCmd
SetRepoCmd(pm, dirState, files, args, enable, fault) ==
  LET name == args[1]
      apt == IF enable THEN enableRepoApt(files, name) ELSE disableRepoApt(files, name)
      yum == SetRepoDnfYum(dirState, files, name, enable)
      apk == IF enable THEN enableRepoAlpine(files, name) ELSE disableRepoAlpine(files, name)
  IN WithArgs(
       IF Len(args) # 1 THEN {Message(files, "usage")}
       ELSE CASE pm = "debian" ->
                   IOOutcomes(files, apt, fault, files[name \o AptExt].exists)
              [] pm = "redhat" ->
                   {o @@ [loc |-> findRepoFile(dirState, files, YumExt, name)] :
                      o \in IOOutcomes(files, yum, fault, yum.path # <<>>)}
              [] pm = "alpine" ->
                   IOOutcomes(files, apk, fault, files[ApkRepositories].exists)
              [] pm = "arch" -> {Message(files, "manual")}
              [] pm = "macos" -> {Message(files, "taps")},
       args)

enableRepoCmd(pm, dirState, files, args, fault) ==
  SetRepoCmd(pm, dirState, files, args, TRUE, fault)

disableRepoCmd(pm, dirState, files, args, fault) ==
  SetRepoCmd(pm, dirState, files, args, FALSE, fault)

(***************************************************************************)
(* State.                                                                  *)
(***************************************************************************)
VARIABLES
  pmType,   \* pm.Type of the detected package manager; fixed for the host
  fs,       \* the files of the family's base directory: path -> file
  prev,     \* fs as it was before the last operation
  last,     \* the last operation: its arguments and its outcome
  rep,      \* the operation before the last one was the same one on the same name
  since,    \* the operations on one name since an add that wrote its file
  steps,    \* operations performed so far
  dir,      \* the family's base directory: "ok", "missing" or "unreadable"
  tmp,      \* a temporary download file exists
  procs,    \* the external commands the last operation started, in order
  calls,    \* the invocations in flight: caller -> position and what it has read
  env       \* the process environment: yes mode, effective user, OS, sudo in PATH

vars == <<pmType, fs, prev, last, rep, since, steps, dir, tmp, procs, calls, env>>

\* the invocations that may overlap
Callers == {1, 2}

\* an invocation that has not started
Idle == [pc |-> "idle", enable |-> FALSE, name |-> <<>>, file |-> <<>>, content |-> <<>>,
         err |-> "", wrote |-> FALSE]

NoCalls == [p \in Callers |-> Idle]

\* DetectPackageManager: the binaries it looks for, in its order, and the Type
\* it gives each
PmNames == <<"brew", "apt", "apt-get", "dnf", "yum", "apk", "pacman">>

PmType(name) ==
  CASE name = "brew" -> "macos"
    [] name \in {"apt", "apt-get"} -> "debian"
    [] name \in {"dnf", "yum"} -> "redhat"
    [] name = "apk" -> "alpine"
    [] name = "pacman" -> "arch"

\* the first binary of a family in the order of detection
FirstPm(family) ==
  PmNames[CHOOSE k \in 1..Len(PmNames) :
            /\ PmType(PmNames[k]) = family
            /\ \A j \in 1..(k - 1) : PmType(PmNames[j]) # family]

\* an environment with yes mode off: root with sudo on Linux, a plain user on macOS
DefaultEnv(family) ==
  [yesFlag |-> FALSE, PKGS_YES |-> <<>>, root |-> family # "macos",
   linux |-> family # "macos", sudo |-> TRUE, pm |-> FirstPm(family)]

\* field f of record r, or d when r has no such field
Opt(r, f, d) == IF f \in DOMAIN r THEN r[f] ELSE d

NoOp == [op |-> "none", name |-> <<>>, arg |-> <<>>, response |-> <<>>, err |-> "",
         wrote |-> FALSE, asked |-> FALSE, path |-> <<>>, out |-> <<>>, sections |-> <<>>,
         args |-> <<>>, fault |-> "none", tmpMade |-> FALSE, msg |-> "", command |-> "",
         loc |-> [file |-> <<>>, found |-> FALSE, err |-> ""]]

NoChain == [ops |-> <<>>, name |-> <<>>, fresh |-> FALSE, content |-> <<>>]

\* texts curl may leave in the temporary file
Downloads == {[ok |-> FALSE, content |-> <<>>],
              [ok |-> TRUE, content |-> SynthesizedRepo(A, <<"u">>)]}

NoDownload == [ok |-> FALSE, content |-> <<>>]

PlainUrl == <<"u">>
RepoFileUrl == <<"u">> \o YumExt

RepoIds == {A, B, DockerId}

\* a .repo file whose first section holds a bracketed id inside a value
BracketValueRepo ==
  Join(<< <<"[", "a", "]">>, <<"x", "=", "[", "b", "]">>, <<"[", "b", "]">> >>)

\* a .repo file whose header line carries text after the closing bracket
TrailingTextRepo ==
  Join(<< <<"[", "a", "]", ";", "c">>, EnabledKey \o <<"0">>, <<>> >>)

\* hand-written .repo files: the documented scenario, a section without an
\* enabled key followed by one that repeats the key, and a repeated section header
YumFixtures ==
  {DockerRepo,
   Join(<< <<"[", "b", "]">>, <<"n", "a", "m", "e", "=", "a">>, <<"[", "a", "]">>,
           <<"n", "a", "m", "e", "=", "a">>, EnabledKey \o <<"1">>, EnabledKey \o <<"0">>,
           <<>> >>),
   Join(<< <<"[", "a", "]">>, <<"[", "b", "]">>, <<"[", "a", "]">> >>),
   BracketValueRepo, TrailingTextRepo}

\* a hand-written .list file: a note that begins like a commented entry, and a
\* line that is no repository definition
AptNote == <<"#", " ", "d", "e", "b", "u", "g">>
AptOther == <<"x">>
AptFixtures == {Join(<<AptNote, AptOther>>)}

\* hand-written repositories files: a name line that follows a name line, and
\* an indented name line
ApkFixtures ==
  {Join(<< <<"#", " ">> \o A, <<"#", " ">> \o A, <<"#", " ">> \o UrlA >>),
   Join(<< <<" ", "#", " ">> \o A, <<"#">> \o UrlA >>)}

InitFiles(family) ==
  CASE family = "debian" ->
         {[p \in Paths(family) |-> f] :
            f \in {Missing} \cup {File(c) : c \in AptFixtures \cup Texts(AptPool)}}
    [] family = "redhat" ->
         {(YumA :> fa) @@ (YumB :> fb)
            @@ (YumOther :> File(Join(<< <<"[", "a", "]">>, EnabledKey \o <<"0">>, <<>> >>))) :
            fa \in {Missing} \cup {File(c) : c \in YumFixtures \cup Texts(YumPool)},
            fb \in {File(Join(<< <<"[", "a", "b", "]">>, EnabledKey \o <<"1">>, <<>> >>)),
                    File(Join(<< <<"[", "a", "]">>, EnabledKey \o <<"0">>, <<>> >>))}}
    [] family = "alpine" ->
         {[p \in Paths(family) |-> f] :
            f \in {Missing} \cup {File(c) : c \in ApkFixtures \cup Texts(ApkPool)}}

Init ==
  /\ pmType \in Families
  /\ fs \in InitFiles(pmType)
  /\ prev = fs
  /\ last = NoOp
  /\ rep = FALSE
  /\ since = NoChain
  /\ steps = 0
  /\ dir = "ok"
  /\ tmp = FALSE
  /\ procs = <<>>
  /\ calls = NoCalls
  /\ env = DefaultEnv(pmType)

\* the bookkeeping every operation shares: o is the mutator's outcome
Step(op, name, arg, response, o) ==
  /\ steps < MaxSteps
  /\ steps' = steps + 1
  /\ prev' = fs
  /\ fs' = o.fs
  /\ last' = [NoOp EXCEPT !.op = op, !.name = name, !.arg = arg, !.err = o.err,
                          !.wrote = o.wrote, !.asked = o.asked, !.path = o.path,
                          !.out = o.content,
                          !.response = IF o.asked THEN response ELSE <<>>,
                          !.args = Opt(o, "args", <<>>),
                          !.fault = Opt(o, "fault", "none"),
                          !.tmpMade = Opt(o, "tmpMade", FALSE),
                          !.msg = Opt(o, "msg", ""),
                          !.command = Opt(o, "command", ""),
                          !.loc = Opt(o, "loc", NoOp.loc)]
  /\ dir' = Opt(o, "dir", dir)
  /\ tmp' = Opt(o, "tmp", tmp)
  /\ procs' = Opt(o, "procs", <<>>)
  /\ rep' = (last.op = op /\ last.name = name)
  /\ since' = IF op = "add" /\ o.wrote
              THEN [ops |-> <<"add">>, name |-> name, fresh |-> ~fs[o.path].exists,
                    content |-> o.fs[o.path].content]
              ELSE IF \/ (since.ops = <<"add">> /\ op = "disable" /\ name = since.name)
                      \/ (since.ops = <<"add", "disable">> /\ op = "enable" /\ name = since.name)
              THEN [since EXCEPT !.ops = @ \o <<op>>]
              ELSE NoChain
  /\ UNCHANGED <<pmType, calls, env>>

(***************************************************************************)
(* Operations: the switch on pm.Type of addRepoCmd, enableRepoCmd and      *)
(* disableRepoCmd.                                                         *)
(***************************************************************************)
AddRepoApt ==
  /\ pmType = "debian"
  /\ \E name \in {A}, repoLine \in AptRepoLines :
       \E response \in IF addRepoApt(fs, name, repoLine, <<>>).asked THEN Responses ELSE {<<>>} :
          Step("add", name, repoLine, response, addRepoApt(fs, name, repoLine, response))

EnableRepoApt ==
  /\ pmType = "debian"
  /\ \E name \in {A} : Step("enable", name, <<>>, <<>>, enableRepoApt(fs, name))

DisableRepoApt ==
  /\ pmType = "debian"
  /\ \E name \in {A} : Step("disable", name, <<>>, <<>>, disableRepoApt(fs, name))

AddRepoDnfYum ==
  /\ pmType = "redhat"
  /\ \E name \in {A}, url \in {PlainUrl, RepoFileUrl} :
       \E download \in IF HasSuffix(url, YumExt) THEN Downloads ELSE {NoDownload} :
          \E response \in IF addRepoDnfYum(fs, name, url, <<>>, download).asked
                           THEN Responses ELSE {<<>>} :
             Step("add", name, url, response, addRepoDnfYum(fs, name, url, response, download))

EnableRepoDnfYum ==
  /\ pmType = "redhat"
  /\ \E name \in RepoIds : Step("enable", name, <<>>, <<>>, enableRepoDnfYum(dir, fs, name))

DisableRepoDnfYum ==
  /\ pmType = "redhat"
  /\ \E name \in RepoIds : Step("disable", name, <<>>, <<>>, disableRepoDnfYum(dir, fs, name))

\* the two section parsers applied to one repository file (a read-only lookup)
ExtractSections ==
  /\ pmType = "redhat"
  /\ steps < MaxSteps
  /\ \E path \in {YumA, YumB}, repoID \in {A, B} :
       /\ fs[path].exists
       /\ last' = [NoOp EXCEPT !.op = "extract", !.name = repoID, !.path = path,
                               !.out = extractRepoSection(fs[path].content, repoID),
                               !.sections = extractAllRepoSections(fs[path].content)]
  /\ steps' = steps + 1
  /\ prev' = fs
  /\ rep' = FALSE
  /\ since' = NoChain
  /\ UNCHANGED <<pmType, fs, dir, tmp, procs, calls, env>>

AddRepoAlpine ==
  /\ pmType = "alpine"
  /\ \E name \in {A, B}, url \in {UrlA, UrlB} :
       Step("add", name, url, <<>>, addRepoAlpine(fs, name, url))

EnableRepoAlpine ==
  /\ pmType = "alpine"
  /\ \E name \in {A, B} : Step("enable", name, <<>>, <<>>, enableRepoAlpine(fs, name))

DisableRepoAlpine ==
  /\ pmType = "alpine"
  /\ \E name \in {A, B} : Step("disable", name, <<>>, <<>>, disableRepoAlpine(fs, name))

Next ==
  \/ AddRepoApt \/ EnableRepoApt \/ DisableRepoApt
  \/ AddRepoDnfYum \/ EnableRepoDnfYum \/ DisableRepoDnfYum \/ ExtractSections
  \/ AddRepoAlpine \/ EnableRepoAlpine \/ DisableRepoAlpine

Spec == Init /\ [][Next]_vars

(***************************************************************************)
(* The hosts of every family, with I/O failures: the command handlers run  *)
(* from their argument lists, on a directory that may be missing or        *)
(* unreadable.                                                             *)
(***************************************************************************)
Tap == <<"h", "/", "f">>
RemoteRepoUrl == <<"h", "/">> \o YumA

\* argument lists of zero to three arguments
ArgLists(family) ==
  {<<>>, <<A, B, A>>} \cup
  CASE family = "debian" -> {<<A>>, <<A, DebX>>}
    [] family = "redhat" -> {<<A>>, <<RemoteRepoUrl>>, <<A, PlainUrl>>}
    [] family = "alpine" -> {<<A>>, <<A, UrlA>>}
    [] family = "arch" -> {<<A>>, <<A, PlainUrl>>}
    [] family = "macos" -> {<<Tap>>, <<A, Tap>>}

HostPaths(family) ==
  CASE family \in Families -> Paths(family)
    [] family = "arch" -> {PacmanConf}
    [] family = "macos" -> {}

HostFiles(family, dirState) ==
  CASE family = "debian" ->
         {[p \in HostPaths(family) |-> f] :
            f \in {Missing, File(DebX \o <<NL>>), File(Join(<<<<"#", " ", "c">>, DebX>>)),
                   File(<<"#", " ", "c", NL>>)}}
    [] family = "redhat" ->
         IF dirState = "missing" THEN {[p \in HostPaths(family) |-> Missing]}
         ELSE {(YumA :> fa) @@ (YumB :> File(Join(<<Header(A), <<>> >>)))
                 @@ (YumOther :> File(Join(<<Header(A), <<>> >>))) :
                 fa \in {Missing, File(Join(<<Header(A), EnabledKey \o <<"0">>, <<>> >>)),
                         File(Join(<<Header(B), <<>> >>))}}
    [] family = "alpine" ->
         {[p \in HostPaths(family) |-> f] :
            f \in {Missing, File(UrlA \o <<NL>>),
                   File(Join(<<<<"#", " ">> \o A, <<"#", " ">> \o UrlA, UrlB>>))}}
    [] family = "arch" -> {[p \in HostPaths(family) |-> File(Header(A))]}
    [] family = "macos" -> {[p \in HostPaths(family) |-> Missing]}

InitHost ==
  /\ pmType \in HostFamilies
  /\ dir \in IF pmType = "redhat" THEN {"ok", "missing", "unreadable"} ELSE {"ok"}
  /\ fs \in HostFiles(pmType, dir)
  /\ prev = fs
  /\ last = NoOp
  /\ rep = FALSE
  /\ since = NoChain
  /\ steps = 0
  /\ tmp = FALSE
  /\ procs = <<>>
  /\ calls = NoCalls
  /\ env = DefaultEnv(pmType)

ArgOr(args, k) == IF k <= Len(args) THEN args[k] ELSE <<>>

AddRepoCmdRun ==
  \E args \in ArgLists(pmType), fault \in Faults, response \in {<<"y">>, <<"n">>},
     download \in Downloads :
     \E o \in addRepoCmd(pmType, dir, tmp, fs, args, response, download, fault) :
        Step("add", ArgOr(args, 1), ArgOr(args, 2), response, o)

EnableRepoCmdRun ==
  \E args \in ArgLists(pmType), fault \in Faults :
     \E o \in enableRepoCmd(pmType, dir, fs, args, fault) :
        Step("enable", ArgOr(args, 1), <<>>, <<>>, o)

DisableRepoCmdRun ==
  \E args \in ArgLists(pmType), fault \in Faults :
     \E o \in disableRepoCmd(pmType, dir, fs, args, fault) :
        Step("disable", ArgOr(args, 1), <<>>, <<>>, o)

NextHost == AddRepoCmdRun \/ EnableRepoCmdRun \/ DisableRepoCmdRun

SpecHost == InitHost /\ [][NextHost]_vars

(***************************************************************************)
(* Overlapping invocations on a RedHat-like host. enableRepoDnfYum and     *)
(* disableRepoDnfYum are three steps on the shared directory: locate the   *)
(* file, read it whole, write it whole. Another writer may edit the file   *)
(* at any moment.                                                          *)
(***************************************************************************)
\* a .repo file with the sections [a] and [b], each with its enabled key
TwoRepos(va, vb) ==
  Join(<<Header(A), EnabledKey \o va, Header(B), EnabledKey \o vb, <<>> >>)

SharedTexts == {TwoRepos(va, vb) : va \in {<<"0">>, <<"1">>}, vb \in {<<"0">>, <<"1">>}}

\* texts another writer leaves in the file: a section's key changed, or a new
\* line in a section
ForeignTexts ==
  SharedTexts \cup
  {Join(<<Header(A), EnabledKey \o <<"0">>, <<"n", "a", "m", "e", "=", "a">>,
          Header(B), EnabledKey \o <<"1">>, <<>> >>)}

InitRace ==
  /\ pmType = "redhat"
  /\ dir = "ok"
  /\ fs \in {(YumA :> File(c)) @@ (YumB :> Missing) @@ (YumOther :> Missing) :
               c \in SharedTexts}
  /\ prev = fs
  /\ last = NoOp
  /\ rep = FALSE
  /\ since = NoChain
  /\ steps = 0
  /\ tmp = FALSE
  /\ procs = <<>>
  /\ calls = NoCalls
  /\ env = DefaultEnv(pmType)

\* a variant of the write step that compares the file with what was read
Commit_Versioned(files, c) ==
  LET newContent == setRepoEnabled(c.content, c.name, c.enable)
  IN IF newContent = c.content THEN [fs |-> files, err |-> "", wrote |-> FALSE]
     ELSE IF files[c.file] # File(c.content)
     THEN [fs |-> files, err |-> "conflict", wrote |-> FALSE]
     ELSE [fs |-> WriteFile(files, c.file, newContent), err |-> "", wrote |-> TRUE]

\* setRepoEnabled on the content read, then writeFileContent unless nothing changed
Commit(files, c) ==
  LET newContent == setRepoEnabled(c.content, c.name, c.enable)
  IN IF newContent = c.content THEN [fs |-> files, err |-> "", wrote |-> FALSE]
     ELSE [fs |-> WriteFile(files, c.file, newContent), err |-> "", wrote |-> TRUE]

RaceFrame == UNCHANGED <<pmType, last, rep, since, dir, tmp, procs, env>>

\* findRepoFile
Locate(p) ==
  /\ calls[p].pc = "idle"
  /\ \E enable \in BOOLEAN, name \in {A, B} :
       LET loc == findRepoFile(dir, fs, YumExt, name)
       IN calls' = [calls EXCEPT ![p] =
                      IF loc.found
                      THEN [Idle EXCEPT !.pc = "located", !.enable = enable, !.name = name,
                                        !.file = loc.file]
                      ELSE [Idle EXCEPT !.pc = "done", !.enable = enable, !.name = name,
                                        !.err = "not_found"]]
  /\ UNCHANGED <<fs, prev, steps>>
  /\ RaceFrame

\* readFileContent
ReadWhole(p) ==
  /\ calls[p].pc = "located"
  /\ calls' = [calls EXCEPT ![p] =
                 IF fs[calls[p].file].exists
                 THEN [@ EXCEPT !.pc = "read", !.content = fs[calls[p].file].content]
                 ELSE [@ EXCEPT !.pc = "done", !.err = "read"]]
  /\ UNCHANGED <<fs, prev, steps>>
  /\ RaceFrame

\* setRepoEnabled, the comparison and writeFileContent
WriteWhole(p) ==
  /\ calls[p].pc = "read"
  /\ LET o == Commit(fs, calls[p])
     IN /\ fs' = o.fs
        /\ calls' = [calls EXCEPT ![p] = [@ EXCEPT !.pc = "done", !.err = o.err,
                                                   !.wrote = o.wrote]]
  /\ prev' = fs
  /\ UNCHANGED steps
  /\ RaceFrame

\* another writer replaces the content of the file
ForeignEdit ==
  /\ steps < MaxSteps
  /\ steps' = steps + 1
  /\ \E c \in ForeignTexts :
       /\ c # fs[YumA].content
       /\ fs' = WriteFile(fs, YumA, c)
  /\ prev' = fs
  /\ UNCHANGED calls
  /\ RaceFrame

NextRace ==
  \/ \E p \in Callers : Locate(p)
  \/ \E p \in Callers : ReadWhole(p)
  \/ \E p \in Callers : WriteWhole(p)
  \/ ForeignEdit

SpecRace == InitRace /\ [][NextRace]_vars

(***************************************************************************)
(* Native invocations: ExecuteCommand of cmd/exec.go. An argument vector   *)
(* is a sequence of strings; procs holds the vectors of the processes      *)
(* started, in order. The command line given to sh -c is the sequence of   *)
(* its words.                                                              *)
(***************************************************************************)
\* IsYesMode: the --yes flag, or a truthy PKGS_YES
IsYesMode(e) ==
  \/ e.yesFlag
  \/ /\ e.PKGS_YES # <<>>
     /\ ToLower(e.PKGS_YES) \in {<<"t", "r", "u", "e">>, <<"y", "e", "s">>, <<"1">>, <<"y">>}

\* pm.Commands of DetectPackageManager, for the commands that reach ExecuteCommand
PmCommands(pm) ==
  CASE pm = "brew" ->
         [install |-> <<"install">>, reinstall |-> <<"reinstall">>,
          remove |-> <<"uninstall">>, update |-> <<"update">>, upgrade |-> <<"upgrade">>,
          search |-> <<"search">>, info |-> <<"info">>, autoremove |-> <<"autoremove">>,
          clean |-> <<"cleanup">>]
    [] pm \in {"apt", "apt-get"} ->
         [install |-> <<"install">>, reinstall |-> <<"install", "--reinstall">>,
          remove |-> <<"remove">>, update |-> <<"update">>, upgrade |-> <<"upgrade">>,
          search |-> <<"search">>, info |-> <<"show">>, autoremove |-> <<"autoremove">>,
          clean |-> <<"clean">>]
    [] pm \in {"dnf", "yum"} ->
         [install |-> <<"install">>, reinstall |-> <<"reinstall">>,
          remove |-> <<"remove">>, update |-> <<"check-update">>, upgrade |-> <<"upgrade">>,
          search |-> <<"search">>, info |-> <<"info">>, autoremove |-> <<"autoremove">>,
          clean |-> <<"clean", "all">>]
    [] pm = "apk" ->
         [install |-> <<"add">>, reinstall |-> <<"add", "--force-overwrite">>,
          remove |-> <<"del">>, update |-> <<"update">>, upgrade |-> <<"upgrade">>,
          search |-> <<"search">>, info |-> <<"info">>, autoremove |-> <<"autoremove">>,
          clean |-> <<"cache", "clean">>]
    [] pm = "pacman" ->
         [install |-> <<"-S">>, reinstall |-> <<"-S", "--needed">>,
          remove |-> <<"-R">>, update |-> <<"-Sy">>, upgrade |-> <<"-Syu">>,
          search |-> <<"-Ss">>, info |-> <<"-Qi">>,
          autoremove |-> <<"-Rs", "$(pacman -Qdtq)">>, clean |-> <<"-Sc">>]

\* containsFlag
containsFlag(args, flag) == \E i \in 1..Len(args) : args[i] = flag

\* addYesFlagIfNeeded: the flag is put in front of the vector it is given
addYesFlagIfNeeded(e, cmdArgs) ==
  IF ~IsYesMode(e) THEN cmdArgs
  ELSE IF e.pm \in {"apt", "apt-get", "dnf", "yum"}
  THEN IF containsFlag(cmdArgs, "-y") THEN cmdArgs ELSE <<"-y">> \o cmdArgs
  ELSE IF e.pm = "pacman"
  THEN IF containsFlag(cmdArgs, "--noconfirm") THEN cmdArgs ELSE <<"--noconfirm">> \o cmdArgs
  ELSE cmdArgs

\* getPacmanAutoremoveScript: a shell command line, as its words
getPacmanAutoremoveScript(e) ==
  <<"pacman">> \o (IF IsYesMode(e) THEN <<"--noconfirm">> ELSE <<>>)
    \o <<"-Rns", "$(pacman -Qdtq)", "2>/dev/null", "||", "echo",
         "'No orphaned packages to remove'">>

\* what a run leaves: the processes started and the error ("" is nil)
Ran(ps) == [procs |-> ps, err |-> ""]
Refused(err) == [procs |-> <<>>, err |-> err]

\* executeShell: sh -c command, the command line being one argument
executeShell(command) == Ran(<< <<"sh", "-c", command>> >>)

\* executeShellWithSudo: sh -c sudoCmd+" "+command, sudoCmd being "sudo -S" in
\* yes mode
executeShellWithSudo(e, command) ==
  IF e.root THEN executeShell(command)
  ELSE IF ~e.sudo THEN Refused("no_sudo")
  ELSE executeShell((IF IsYesMode(e) THEN <<"sudo", "-S">> ELSE <<"sudo">>) \o command)

executeDirectly(e, command, cmdArgs, userArgs) ==
  IF e.pm = "pacman" /\ command = "autoremove"
  THEN executeShell(getPacmanAutoremoveScript(e))
  ELSE IF e.pm = "brew" /\ command = "autoremove"
  THEN Ran(<< <<"brew", "autoremove">>, <<"brew", "cleanup">> >>)
  ELSE Ran(<< <<e.pm>> \o addYesFlagIfNeeded(e, cmdArgs) \o userArgs >>)

\* a variant without the test for Homebrew
executeWithSudo_BrewToo(e, command, cmdArgs, userArgs) ==
  IF e.root THEN executeDirectly(e, command, cmdArgs, userArgs)
  ELSE IF ~e.sudo THEN Refused("no_sudo")
  ELSE Ran(<< <<"sudo">> \o addYesFlagIfNeeded(e, <<e.pm>> \o cmdArgs) \o userArgs >>)

executeWithSudo(e, command, cmdArgs, userArgs) ==
  IF e.pm = "brew" THEN executeDirectly(e, command, cmdArgs, userArgs)
  ELSE IF e.root THEN executeDirectly(e, command, cmdArgs, userArgs)
  ELSE IF ~e.sudo THEN Refused("no_sudo")
  ELSE IF e.pm = "pacman" /\ command = "autoremove"
  THEN executeShellWithSudo(e, getPacmanAutoremoveScript(e))
  ELSE Ran(<< <<"sudo">> \o addYesFlagIfNeeded(e, <<e.pm>> \o cmdArgs) \o userArgs >>)

ExecuteCommand(e, command, args) ==
  IF command \notin DOMAIN PmCommands(e.pm) THEN Refused("unsupported")
  ELSE IF e.linux THEN executeWithSudo(e, command, PmCommands(e.pm)[command], args)
  ELSE executeDirectly(e, command, PmCommands(e.pm)[command], args)

\* RunWithSudo: a wrapper around ExecuteCommand
RunWithSudo(e, command, args) == ExecuteCommand(e, command, args)

(***************************************************************************)
(* Hosts in every environment: any package manager, yes mode on or off,    *)
(* root or not, with or without sudo.                                      *)
(***************************************************************************)
\* --yes and PKGS_YES as the user may set them
YesSettings ==
  {[yesFlag |-> FALSE, PKGS_YES |-> <<>>], [yesFlag |-> TRUE, PKGS_YES |-> <<>>],
   [yesFlag |-> FALSE, PKGS_YES |-> <<"Y">>], [yesFlag |-> FALSE, PKGS_YES |-> <<"0">>]}

\* Homebrew runs on macOS and on Linux; the others on Linux
Envs ==
  {[yesFlag |-> y.yesFlag, PKGS_YES |-> y.PKGS_YES, root |-> root, linux |-> linux,
    sudo |-> sudo, pm |-> PmNames[k]] :
     y \in YesSettings, root \in BOOLEAN, linux \in BOOLEAN, sudo \in BOOLEAN,
     k \in 1..Len(PmNames)}

InitEnv ==
  /\ env \in {e \in Envs : e.linux \/ e.pm = "brew"}
  /\ pmType = PmType(env.pm)
  /\ dir = "ok"
  /\ fs \in HostFiles(pmType, dir)
  /\ prev = fs
  /\ last = NoOp
  /\ rep = FALSE
  /\ since = NoChain
  /\ steps = 0
  /\ tmp = FALSE
  /\ procs = <<>>
  /\ calls = NoCalls

\* the user's arguments of a package command
UserArgs == {<<>>, <<"p">>, <<"p", "q">>}

Native(command, args, r) ==
  Step("exec", <<>>, <<>>, <<>>,
       Outcome(fs, r.err, FALSE, FALSE, <<>>, <<>>)
         @@ [procs |-> r.procs, command |-> command, args |-> args])

\* install, reinstall, update, upgrade, search, info, clean: ExecuteCommand
ExecuteCommandRun ==
  \E command \in {"install", "reinstall", "update", "upgrade", "search", "info", "clean"},
     args \in UserArgs :
     Native(command, args, ExecuteCommand(env, command, args))

\* autoremove, remove: RunWithSudo
RunWithSudoRun ==
  \E command \in {"autoremove", "remove"}, args \in UserArgs :
     Native(command, args, RunWithSudo(env, command, args))

NextEnv == ExecuteCommandRun \/ RunWithSudoRun


SpecEnv == InitEnv /\ [][NextEnv]_vars

(***************************************************************************)
(* Every command as its user runs it: the package commands and the         *)
(* repository commands of a host, by root or by a plain user with or       *)
(* without sudo, with the --yes flag or without it.                        *)
(***************************************************************************)
\* the first package manager of each family; sudo matters to a plain user only
UserEnvs ==
  {e \in Envs :
     /\ e.pm = FirstPm(PmType(e.pm))
     /\ e.PKGS_YES = <<>>
     /\ e.linux \/ e.pm = "brew"
     /\ e.root => e.sudo}

InitUser ==
  /\ env \in UserEnvs
  /\ pmType = PmType(env.pm)
  /\ dir = "ok"
  /\ fs \in HostFiles(pmType, dir)
  /\ prev = fs
  /\ last = NoOp
  /\ rep = FALSE
  /\ since = NoChain
  /\ steps = 0
  /\ tmp = FALSE
  /\ procs = <<>>
  /\ calls = NoCalls

\* what the system does to a write under /etc: it is refused at the open when
\* the effective user of a Linux host is not root
Denied(e) == IF e.linux /\ ~e.root THEN "open" ELSE "none"

\* what a prompt reads from standard input: an answer, or nothing
Stdin == {<<"y">>, <<"n">>, <<>>}

\* the repository commands, run by the user of the environment
AddRepoCmdAsUser ==
  \E args \in ArgLists(pmType), response \in Stdin, download \in Downloads :
     \E o \in addRepoCmd(pmType, dir, tmp, fs, args, response, download, Denied(env)) :
        Step("add", ArgOr(args, 1), ArgOr(args, 2), response, o)

EnableRepoCmdAsUser ==
  \E args \in ArgLists(pmType) :
     \E o \in enableRepoCmd(pmType, dir, fs, args, Denied(env)) :
        Step("enable", ArgOr(args, 1), <<>>, <<>>, o)

DisableRepoCmdAsUser ==
  \E args \in ArgLists(pmType) :
     \E o \in disableRepoCmd(pmType, dir, fs, args, Denied(env)) :
        Step("disable", ArgOr(args, 1), <<>>, <<>>, o)

NextUser ==
  \/ ExecuteCommandRun \/ RunWithSudoRun
  \/ AddRepoCmdAsUser \/ EnableRepoCmdAsUser \/ DisableRepoCmdAsUser

SpecUser == InitUser /\ [][NextUser]_vars

(***************************************************************************)
(* add-key: addKeyCmd of cmd/add_key.go and downloadFile of cmd/utils.go.  *)
(* Key files are named by their base name: name.asc under                  *)
(* /etc/apt/keyrings, name under /etc/apk/keys.                            *)
(***************************************************************************)
KeyExt == <<".", "a", "s", "c">>
FilenameKey == <<"f", "i", "l", "e", "n", "a", "m", "e", "=">>

\* strings.Trim(s, cutset)
Trim(s, cutset) ==
  LET keep == {i \in 1..Len(s) : s[i] \notin cutset}
  IN IF keep = {} THEN <<>>
     ELSE SubSeq(s, CHOOSE i \in keep : \A j \in keep : i <= j,
                    CHOOSE i \in keep : \A j \in keep : j <= i)

\* strings.Split(s, sep)[1]: what lies between the first sep and the next one
SecondPart(s, sep) ==
  LET rest == SubSeq(s, Index(s, sep) + Len(sep) + 1, Len(s))
  IN IF Index(rest, sep) < 0 THEN rest ELSE SubSeq(rest, 1, Index(rest, sep))

\* the answers of the server to http.Get: a transport error, or a status and a body
KeyText == <<"k", "e", "y">>
Gets ==
  {[ok |-> FALSE, status |-> 0, body |-> <<>>],
   [ok |-> TRUE, status |-> 200, body |-> KeyText],
   [ok |-> TRUE, status |-> 204, body |-> <<>>],
   [ok |-> TRUE, status |-> 404, body |-> <<"n", "o">>]}

\* the answers to http.Head: a transport error, or the Content-Disposition header
Heads ==
  {[ok |-> FALSE, disposition |-> <<>>],
   [ok |-> TRUE, disposition |-> <<>>],
   [ok |-> TRUE, disposition |-> FilenameKey \o <<"\"", "b", "\"">>]}

\* downloadFile: os.Create, http.Get, the status test, io.Copy
downloadFile(files, path, get, fault) ==
  LET created == WriteFile(files, path, <<>>)
  IN IF fault = "open" THEN {Struck(Outcome(files, "create", FALSE, FALSE, path, <<>>), fault)}
     ELSE IF ~get.ok THEN {Outcome(created, "fetch", FALSE, FALSE, path, <<>>)}
     ELSE IF get.status # 200 THEN {Outcome(created, "status", FALSE, FALSE, path, <<>>)}
     ELSE IF fault = "write"
     THEN {Struck(Outcome(f, "copy", FALSE, FALSE, path, get.body), fault) :
             f \in FailedWrite(files, path, get.body, fault)}
     ELSE {Outcome(WriteFile(files, path, get.body), "", TRUE, FALSE, path, get.body)}

\* addKeyApt: os.MkdirAll, then downloadFile to name.asc
addKeyApt(files, name, url, get, fault) ==
  IF fault = "mkdir" THEN {Struck(Outcome(files, "mkdir", FALSE, FALSE, <<>>, <<>>), fault)}
  ELSE downloadFile(files, name \o KeyExt, get, fault)

\* addKeyAlpine: without a name, the file name of the Content-Disposition header
\* or else the base name of the url
addKeyAlpine(files, name, url, head, get, fault) ==
  LET fromHeader ==
        IF head.disposition # <<>> /\ Contains(head.disposition, FilenameKey)
        THEN Trim(SecondPart(head.disposition, FilenameKey), {"\"", "'", " "})
        ELSE <<>>
      keyName == IF name # <<>> THEN name
                 ELSE IF fromHeader # <<>> THEN fromHeader
                 ELSE Base(url)
  IN IF name = <<>> /\ ~head.ok
     THEN {Outcome(files, "head", FALSE, FALSE, <<>>, <<>>)}
     ELSE downloadFile(files, keyName, get, fault)

\* addKeyCmd.Run
addKeyCmd(pm, files, args, head, get, fault) ==
  LET out == CASE pm = "debian" ->
                    IF Len(args) # 2 THEN {Message(files, "usage")}
                    ELSE addKeyApt(files, args[1], args[2], get, fault)
               [] pm = "alpine" ->
                    IF Len(args) = 0 \/ Len(args) > 2 THEN {Message(files, "usage")}
                    ELSE IF Len(args) = 1
                    THEN addKeyAlpine(files, <<>>, args[1], head, get, fault)
                    ELSE addKeyAlpine(files, args[1], args[2], head, get, fault)
               [] OTHER -> {Message(files, "unsupported")}
  IN WithArgs(out, args)

\* the key files of a family
KeyPaths(family) ==
  CASE family = "debian" -> {A \o KeyExt}
    [] family = "alpine" -> {A, B}
    [] OTHER -> {A}

KeyArgLists == {<<>>, <<UrlA>>, <<A, UrlA>>, <<A, B, A>>}

InitKey ==
  /\ pmType \in HostFamilies
  /\ dir = "ok"
  /\ fs \in {[p \in KeyPaths(pmType) |-> f] : f \in {Missing, File(<<"o", "l", "d">>)}}
  /\ prev = fs
  /\ last = NoOp
  /\ rep = FALSE
  /\ since = NoChain
  /\ steps = 0
  /\ tmp = FALSE
  /\ procs = <<>>
  /\ calls = NoCalls
  /\ env = DefaultEnv(pmType)

AddKeyCmdRun ==
  \E args \in KeyArgLists, head \in Heads, get \in Gets,
     fault \in {"none", "mkdir", "open", "write"} :
     \E o \in addKeyCmd(pmType, fs, args, head, get, fault) :
        Step("addkey", ArgOr(args, 1), ArgOr(args, 2), <<>>, o)

NextKey == AddKeyCmdRun

SpecKey == InitKey /\ [][NextKey]_vars

(***************************************************************************)
(* The rewriters applied to the .repo files of a RedHat-like host.         *)
(***************************************************************************)
InitRewrite ==
  /\ pmType = "redhat"
  /\ dir = "ok"
  /\ fs \in {(YumA :> File(c)) @@ (YumB :> File(TwoRepos(<<"0">>, <<"1">>)))
               @@ (YumOther :> Missing) :
               c \in YumFixtures \cup SharedTexts \cup Texts(YumPool)}
  /\ prev = fs
  /\ last = NoOp
  /\ rep = FALSE
  /\ since = NoChain
  /\ steps = 0
  /\ tmp = FALSE
  /\ procs = <<>>
  /\ calls = NoCalls
  /\ env = DefaultEnv(pmType)

\* a rewriter applied to the content of a file; the result is last.out
Rewritten(op, path, repoID, result) ==
  /\ steps < MaxSteps
  /\ steps' = steps + 1
  /\ fs[path].exists
  /\ last' = [NoOp EXCEPT !.op = op, !.name = repoID, !.path = path, !.out = result]
  /\ prev' = fs
  /\ rep' = FALSE
  /\ since' = NoChain
  /\ UNCHANGED <<pmType, fs, dir, tmp, procs, calls, env>>

EnableRepoInContent ==
  \E path \in {YumA, YumB}, repoID \in {A, B} :
     Rewritten("enableInContent", path, repoID, enableRepoInContent(fs[path].content, repoID))

DisableRepoInContent ==
  \E path \in {YumA, YumB}, repoID \in {A, B} :
     Rewritten("disableInContent", path, repoID, disableRepoInContent(fs[path].content, repoID))

NextRewrite == EnableRepoInContent \/ DisableRepoInContent

SpecRewrite == InitRewrite /\ [][NextRewrite]_vars

(***************************************************************************)
(* Vocabulary of the properties.                                           *)
(***************************************************************************)
IsEnable == last.op = "enable"
IsDisable == last.op = "disable"
IsAdd == last.op = "add"

\* the target file of the last operation, before and after it
Before == prev[last.path]
After == fs[last.path]

\* line is a section header written as [id] and nothing else
IsPlainHeader(line) ==
  /\ Len(line) >= 3
  /\ line[1] = "[" /\ line[Len(line)] = "]"
  /\ \A k \in 2..(Len(line) - 1) : line[k] \notin {"[", "]", " "}

\* a repository-definition text made of well-formed sections with distinct ids:
\* it starts with a header, every other line is a header, a key=value line or
\* blank, and no two headers are equal
WellFormedRepo(content) ==
  LET lines == Split(content)
  IN /\ IsPlainHeader(lines[1])
     /\ \A i \in 1..Len(lines) :
          \/ IsPlainHeader(lines[i])
          \/ lines[i] = <<>>
          \/ (lines[i][1] \notin {"[", " "} /\ Contains(lines[i], <<"=">>))
     /\ \A i, j \in 1..Len(lines) :
          IsPlainHeader(lines[i]) /\ lines[i] = lines[j] => i = j

(***************************************************************************)
(* C1. Round trip between the two section parsers: on a text of            *)
(* well-formed sections with distinct ids, extractRepoSection(content, id) *)
(* returns exactly extractAllRepoSections(content)[id], for every id of    *)
(* the text.                                                               *)
(***************************************************************************)
C1_RoundTrip ==
  (last.op = "extract" /\ WellFormedRepo(fs[last.path].content)
     /\ last.name \in DOMAIN last.sections)
    => last.out = last.sections[last.name]

\* the parsers do agree on a section whose header is the last line of a text
\* that does not end in a newline
C1_AgreeOnLastLine ==
  last.op = "extract" /\ last.name \in DOMAIN last.sections
    /\ last.out = last.sections[last.name] /\ last.out # <<>>

(***************************************************************************)
(* C2. Idempotence: enable invoked twice in a row on the same name leaves  *)
(* the files after the second call as they were after the first, and       *)
(* likewise disable, in each family.                                       *)
(***************************************************************************)
C2_Idempotent == ((IsEnable \/ IsDisable) /\ rep) => fs = prev

(***************************************************************************)
(* What "already in the requested state" means for each family's file,     *)
(* stated on the lines of the file.                                        *)
(***************************************************************************)
\* t without its leading comment markers and blanks
RECURSIVE StripMarks(_)
StripMarks(t) == IF t # <<>> /\ t[1] \in {"#", " "} THEN StripMarks(Tail(t)) ELSE t

\* a commented-out repository line of a .list file
AptDisabledLine(line) ==
  /\ HasPrefix(TrimSpace(line), <<"#">>)
  /\ HasPrefix(StripMarks(TrimSpace(line)), <<"d", "e", "b">>)

AptAlreadyEnabled(content) ==
  \A i \in 1..Len(Split(content)) : ~AptDisabledLine(Split(content)[i])

AptAlreadyDisabled(content) ==
  \A i \in 1..Len(Split(content)) :
     TrimSpace(Split(content)[i]) = <<>> \/ Split(content)[i][1] = "#"

\* the indices of the lines that are the header [id]
HeaderLines(lines, id) == {i \in 1..Len(lines) : TrimSpace(lines[i]) = Header(id)}

\* the last line of the section whose header is line h: the line before the
\* next line that opens a section, or the last line of the file
SectionLast(lines, h) ==
  LET opens == {k \in (h + 1)..Len(lines) : HasPrefix(TrimSpace(lines[k]), <<"[">>)}
  IN IF opens = {} THEN Len(lines) ELSE (CHOOSE k \in opens : \A m \in opens : k <= m) - 1

\* the enabled= lines of the section whose header is line h
EnabledLines(lines, h) ==
  {k \in (h + 1)..SectionLast(lines, h) : HasPrefix(TrimSpace(lines[k]), EnabledKey)}

\* [id] heads exactly one section of the text
OneSection(content, id) == Cardinality(HeaderLines(Split(content), id)) = 1

TheHeader(content, id) == CHOOSE h \in HeaderLines(Split(content), id) : TRUE

\* the one section [id] holds exactly one enabled= line, reading enabled=<value>
YumAlreadySet(content, id, value) ==
  /\ OneSection(content, id)
  /\ LET lines == Split(content)
         en == EnabledLines(lines, TheHeader(content, id))
     IN Cardinality(en) = 1 /\ \A k \in en : lines[k] = EnabledKey \o value

\* every "# name" line is followed by an active line, and there is one
ApkAlreadyEnabled(content, name) ==
  LET lines == Split(content)
      named == {i \in 1..Len(lines) : TrimSpace(lines[i]) = <<"#", " ">> \o name}
  IN /\ named # {}
     /\ \A i \in named : /\ i + 1 <= Len(lines)
                         /\ TrimSpace(lines[i + 1]) # <<>>
                         /\ ~HasPrefix(TrimSpace(lines[i + 1]), <<"#">>)

\* some line names /name, and every line that does is commented out
ApkAlreadyDisabled(content, name) ==
  LET lines == Split(content)
      naming == {i \in 1..Len(lines) : Contains(lines[i], <<"/">> \o name)}
  IN naming # {} /\ \A i \in naming : HasPrefix(TrimSpace(lines[i]), <<"#">>)

\* the last operation was an enable or a disable of a repository that was
\* already in the state it asks for
AlreadyInRequestedState ==
  /\ IsEnable \/ IsDisable
  /\ last.path # <<>>
  /\ Before.exists
  /\ CASE pmType = "debian" ->
            IF IsEnable THEN AptAlreadyEnabled(Before.content)
            ELSE AptAlreadyDisabled(Before.content)
       [] pmType = "redhat" ->
            YumAlreadySet(Before.content, last.name, IF IsEnable THEN <<"1">> ELSE <<"0">>)
       [] pmType = "alpine" ->
            IF IsEnable THEN ApkAlreadyEnabled(Before.content, last.name)
            ELSE ApkAlreadyDisabled(Before.content, last.name)

(***************************************************************************)
(* C3. An enable or disable of a repository already in the requested state *)
(* writes no file and returns no error, in every family.                   *)
(***************************************************************************)
C3_AlreadyIsNil == AlreadyInRequestedState => (~last.wrote /\ last.err = "")

\* C3 as the code has it: no file is written in any family; the Debian-like and
\* RedHat-like operations return nil, the Alpine-like ones return the error
\* "not found or already enabled/disabled"
C3_AlreadySatisfied ==
  AlreadyInRequestedState =>
    /\ ~last.wrote
    /\ fs = prev
    /\ last.err = (IF pmType = "alpine" THEN "not_found" ELSE "")

C3_Witness ==
  /\ AlreadyInRequestedState
  /\ pmType = "alpine" /\ IsEnable /\ rep
  /\ last.err = "not_found" /\ ~last.wrote

(***************************************************************************)
(* C4. Debian-like toggle inverse: after addRepoApt has created the file   *)
(* of a name, disableRepoApt and then enableRepoApt on that name leave the *)
(* file byte-identical to what add wrote, for any repository line.         *)
(***************************************************************************)
C4_ToggleInverse ==
  (pmType = "debian" /\ since.fresh /\ since.ops = <<"add", "disable", "enable">>)
    => fs[since.name \o AptExt] = File(since.content)

\* the round trip does restore a line that starts with deb
C4_Restored ==
  /\ pmType = "debian" /\ since.fresh /\ since.ops = <<"add", "disable", "enable">>
  /\ prev # fs
  /\ fs[since.name \o AptExt] = File(DebX \o <<NL>>)

(***************************************************************************)
(* C5. Locator exactness: findRepoFile reports a file only if the file has *)
(* a section header whose id is exactly the id asked for; an id that is a  *)
(* strict substring of another section's id is not matched; when no        *)
(* *.repo file has the exact header the result is ("", false, nil).        *)
(***************************************************************************)
\* the files filepath.Glob(baseDir/*.repo) lists
YumRepoFiles(files) == {p \in DOMAIN files : files[p].exists /\ HasSuffix(p, YumExt)}

\* content has a section header whose id is exactly id
HasExactHeader(content, id) == id \in DOMAIN extractAllRepoSections(content)

C5_LocatorExact ==
  (pmType = "redhat" /\ (IsEnable \/ IsDisable)) =>
    /\ last.err # "not_found" =>
         /\ last.path \in YumRepoFiles(prev)
         /\ HasExactHeader(prev[last.path].content, last.name)
    /\ (\A p \in YumRepoFiles(prev) : ~HasExactHeader(prev[p].content, last.name)) =>
         /\ last.err = "not_found" /\ last.path = <<>> /\ fs = prev

\* id a is looked up while the only header that contains it is [ab]
C5_Witness ==
  /\ pmType = "redhat" /\ IsEnable /\ last.name = A
  /\ HasExactHeader(prev[YumB].content, AB)
  /\ \A p \in YumRepoFiles(prev) : ~HasExactHeader(prev[p].content, A)
  /\ last.err = "not_found"

(***************************************************************************)
(* C6. No-op add: a Debian-like or RedHat-like add whose destination file  *)
(* exists with exactly the content to be written writes nothing, asks      *)
(* nothing and succeeds.                                                   *)
(***************************************************************************)
C6_NoOpAdd ==
  (IsAdd /\ pmType \in {"debian", "redhat"} /\ last.err # "download"
     /\ Before.exists /\ Before.content = last.out)
    => (~last.wrote /\ ~last.asked /\ last.err = "" /\ fs = prev)

\* the Debian-like half alone
C6_NoOpAddApt ==
  (IsAdd /\ pmType = "debian" /\ Before.exists /\ Before.content = last.out)
    => (~last.wrote /\ ~last.asked /\ last.err = "" /\ fs = prev)

(***************************************************************************)
(* C7. Debian-like add on an existing file whose content differs from the  *)
(* content to be written: no overwrite without a confirmation, and no      *)
(* success unless the operator confirmed and the file was rewritten.       *)
(***************************************************************************)
Confirmed == last.asked /\ askForConfirmation(last.response)

AddAptOnDifferent ==
  pmType = "debian" /\ IsAdd /\ Before.exists /\ Before.content # last.out

C7_ConfirmOrIdentical ==
  AddAptOnDifferent =>
    /\ last.wrote => Confirmed
    /\ last.err = "" => (Confirmed /\ last.wrote /\ After.content = last.out)

\* C7 as the code has it: success without a confirmation also when the existing
\* content contains the repository line as a substring; then nothing is written
C7_ConfirmOrContained ==
  AddAptOnDifferent =>
    /\ last.wrote => Confirmed
    /\ last.err = "" =>
         \/ (Confirmed /\ last.wrote /\ After.content = last.out)
         \/ (Contains(Before.content, last.arg) /\ ~last.asked /\ ~last.wrote /\ fs = prev)
    /\ (~Contains(Before.content, last.arg) /\ ~Confirmed) =>
         (last.err = "cancelled" /\ last.asked /\ fs = prev)

C7_Witness ==
  /\ AddAptOnDifferent /\ ~Contains(Before.content, last.arg)
  /\ last.asked /\ last.response = <<"Y">> /\ last.wrote /\ last.err = ""
  /\ After.content = last.arg \o <<NL>>

(***************************************************************************)
(* C8. RedHat-like enable/disable frame: when the section [id] has an      *)
(* enabled= line, that line's value is replaced in place and every other   *)
(* line of the file is unchanged in content and order; disabling again     *)
(* reports already disabled and writes nothing.                            *)
(***************************************************************************)
Requested == IF IsEnable THEN <<"1">> ELSE <<"0">>

\* the last operation was a RedHat-like enable or disable that found its file,
\* in which [id] heads one section
YumSetFound ==
  /\ pmType = "redhat" /\ (IsEnable \/ IsDisable)
  /\ last.path # <<>>
  /\ OneSection(Before.content, last.name)

BeforeLines == Split(Before.content)
BeforeEnabled == EnabledLines(BeforeLines, TheHeader(Before.content, last.name))

\* the elements of lines at the indices of keep, in order
Pick(lines, keep) ==
  [i \in 1..Cardinality(keep) |->
     lines[CHOOSE k \in keep : Cardinality({m \in keep : m <= k}) = i]]

C8_OnlyValueReplaced ==
  (YumSetFound /\ BeforeEnabled # {}) =>
    /\ \E k \in BeforeEnabled :
         After.content = Join([BeforeLines EXCEPT ![k] = EnabledKey \o Requested])
    /\ \A p \in DOMAIN fs \ {last.path} : fs[p] = prev[p]
    /\ rep => (~last.wrote /\ last.err = "")

\* C8 as the code has it: the first enabled= line of the section becomes
\* enabled=<value>, every further enabled= line of the section is removed, and
\* every other line of the file is unchanged in content and order
C8_FirstReplacedRestDropped ==
  (YumSetFound /\ BeforeEnabled # {}) =>
    LET first == CHOOSE k \in BeforeEnabled : \A m \in BeforeEnabled : k <= m
        keep == (1..Len(BeforeLines)) \ (BeforeEnabled \ {first})
    IN /\ After.content =
            Join(Pick([BeforeLines EXCEPT ![first] = EnabledKey \o Requested], keep))
       /\ \A p \in DOMAIN fs \ {last.path} : fs[p] = prev[p]
       /\ last.err = ""
       /\ last.wrote <=> After # Before
       /\ rep => (~last.wrote /\ fs = prev)

\* the documented scenario: docker-ce-stable disabled a second time
DockerDisabled ==
  Join(<< Header(DockerId),
          <<"n", "a", "m", "e", "=", "D", "o", "c", "k", "e", "r">>,
          <<"b", "a", "s", "e", "u", "r", "l", "=", "h", "t", "t", "p", "s", ":", "/", "/", "x">>,
          EnabledKey \o <<"0">>,
          <<>> >>)

C8_Witness ==
  /\ YumSetFound /\ IsDisable /\ last.name = DockerId /\ rep
  /\ Before.content = DockerDisabled /\ After.content = DockerDisabled
  /\ ~last.wrote /\ last.err = ""

(***************************************************************************)
(* C9. RedHat-like key insertion: when the section [id] has no enabled key *)
(* the line enabled=<value> is inserted on the line immediately after the  *)
(* [id] header line, inside the section.                                   *)
(***************************************************************************)
InsertAfter(lines, k, line) ==
  SubSeq(lines, 1, k) \o <<line>> \o SubSeq(lines, k + 1, Len(lines))

OccursIn(s, sub) == \E i \in 1..(Len(s) + 1) : \E j \in (i - 1)..Len(s) : SubSeq(s, i, j) = sub

C10_AlpineAdd ==
  (pmType = "alpine" /\ IsAdd /\ Before.exists) =>
    IF OccursIn(Before.content, last.arg)
    THEN fs = prev /\ ~last.wrote /\ last.err = ""
    ELSE /\ After.content =
              Before.content \o <<NL, "#", " ">> \o last.name \o <<NL>> \o last.arg \o <<NL>>
         /\ last.wrote /\ last.err = ""

\* "h/a\n" plus add(b, h/b)
C10_Witness ==
  /\ pmType = "alpine" /\ IsAdd /\ last.name = B /\ last.arg = UrlB
  /\ Before.content = UrlA \o <<NL>>
  /\ After.content = <<"h", "/", "a", NL, NL, "#", " ", "b", NL, "h", "/", "b", NL>>

(***************************************************************************)
(* C11. No partial writes: an add, enable or disable of the Debian-like,   *)
(* RedHat-like or Alpine-like family that fails, a failure while writing   *)
(* included, leaves its target file with exactly its prior content; the    *)
(* file is always either fully rewritten with the new content or untouched.*)
(***************************************************************************)
IsMutation == last.op \in {"add", "enable", "disable"} /\ pmType \in Families

C11_NoPartialWrites ==
  (IsMutation /\ last.path # <<>>) =>
    /\ last.err # "" => fs = prev
    /\ After = Before \/ After = File(last.out)

\* the part that holds: a failure anywhere but in the write itself changes no file
C11_UntouchedUnlessWriting ==
  (IsMutation /\ last.err # "" /\ last.fault # "write") => fs = prev

(***************************************************************************)
(* C12. Declined confirmation: when a Debian-like or RedHat-like add       *)
(* targets an existing file and the operator's answer to the overwrite     *)
(* prompt is anything other than a case-insensitive "y", the operation     *)
(* returns the cancellation error and the existing file is unchanged.      *)
(***************************************************************************)
AddAsked == IsAdd /\ pmType \in {"debian", "redhat"} /\ last.asked /\ Before.exists

C12_DeclinedCancels ==
  (AddAsked /\ last.response \notin {<<"y">>, <<"Y">>}) =>
    (last.err = "cancelled" /\ ~last.wrote /\ fs = prev)

\* the part that holds: an answer whose first word is not "y" or "Y" cancels
C12_OtherWordCancels ==
  (AddAsked /\ \A k \in 1..Len(last.response) :
                  SubSeq(last.response, 1, k) \notin {<<"y">>, <<"Y">>}
                  \/ (k < Len(last.response) /\ last.response[k + 1] # " ")) =>
    (last.err = "cancelled" /\ ~last.wrote /\ fs = prev)

(***************************************************************************)
(* C13. Temporary-file cleanup: in the RedHat-like add of a remote         *)
(* definition file, once the temporary download file has been created it   *)
(* no longer exists when the operation returns, on every exit path:        *)
(* download failure, read failure, declined confirmation, write failure    *)
(* and success.                                                            *)
(***************************************************************************)
C13_TempRemoved ==
  (pmType = "redhat" /\ IsAdd /\ last.tmpMade) => ~tmp

\* the exit path through a failed write of the destination
C13_Witness ==
  /\ pmType = "redhat" /\ IsAdd /\ last.tmpMade /\ ~tmp
  /\ last.fault = "write" /\ last.err = "write" /\ procs # <<>>

\* the other exit paths
C13_ExitDownload == pmType = "redhat" /\ IsAdd /\ last.tmpMade /\ ~tmp /\ last.err = "download"
C13_ExitRead == pmType = "redhat" /\ IsAdd /\ last.tmpMade /\ ~tmp /\ last.err = "read"
C13_ExitDeclined == pmType = "redhat" /\ IsAdd /\ last.tmpMade /\ ~tmp /\ last.err = "cancelled"
C13_ExitSuccess == pmType = "redhat" /\ IsAdd /\ last.tmpMade /\ ~tmp /\ last.wrote

(***************************************************************************)
(* C14. Locator failure on an unlistable directory: findRepoFile returns a *)
(* non-nil I/O error whenever the base directory cannot be listed (it does *)
(* not exist or is unreadable); the result ("", false, nil) is returned    *)
(* only when the directory was listed and no file contains the id.         *)
(***************************************************************************)
\* the last operation called findRepoFile; its result is last.loc
Located ==
  pmType = "redhat" /\ (IsEnable \/ IsDisable) /\ Len(last.args) = 1

C14_UnlistableIsError ==
  Located =>
    /\ dir # "ok" => last.loc.err # ""
    /\ last.loc = [file |-> <<>>, found |-> FALSE, err |-> ""] => dir = "ok"

\* what the locator does return for a directory it cannot list
C14_UnlistableIsNotFound ==
  (Located /\ dir # "ok") =>
    (last.loc = [file |-> <<>>, found |-> FALSE, err |-> ""] /\ last.err = "not_found")

(***************************************************************************)
(* C15. First-match policy: when several files of the base directory       *)
(* define the same section id, findRepoFile returns the first of them in   *)
(* directory-listing order, and a RedHat-like enable or disable of that id *)
(* modifies only that first file; every other file keeps its content.      *)
(***************************************************************************)
\* positions in the listing of the .repo files that define id
Defining(files, id) ==
  {k \in 1..Len(YumListing) :
     /\ YumListing[k] \in YumRepoFiles(files)
     /\ HasExactHeader(files[YumListing[k]].content, id)}

C15_FirstMatchOnly ==
  (pmType = "redhat" /\ (IsEnable \/ IsDisable)) =>
    LET defs == Defining(prev, last.name)
    IN IF defs = {} THEN last.path = <<>> /\ fs = prev
       ELSE /\ last.path = YumListing[CHOOSE k \in defs : \A m \in defs : k <= m]
            /\ \A p \in DOMAIN fs \ {last.path} : fs[p] = prev[p]

\* a.repo and b.repo both define the id; a.repo is rewritten, b.repo is not
C15_Witness ==
  /\ pmType = "redhat" /\ (IsEnable \/ IsDisable)
  /\ Cardinality(Defining(prev, last.name)) = 2
  /\ last.path = YumA /\ last.wrote /\ fs[YumA] # prev[YumA]
  /\ fs[YumB] = prev[YumB]

(***************************************************************************)
(* C16. Alpine-like enable: for a comment line exactly equal to "# <name>" *)
(* whose immediately following line is commented, the operation strips the *)
(* comment marker from that following line only and changes no other line; *)
(* it fails with an error and writes nothing if no line equals "# <name>"  *)
(* or the line following it is already uncommented.                        *)
(***************************************************************************)
ApkEnabling == pmType = "alpine" /\ IsEnable /\ Before.exists

ApkCommented(line) == HasPrefix(TrimSpace(line), <<"#">>)

\* the line without its comment marker
ApkUnmarked(line) == TrimPrefix(TrimSpace(line), <<"#">>)

\* the outcome of an enable whose lines to uncomment are targets
ApkUncomments(targets) ==
  IF targets = {}
  THEN last.err # "" /\ ~last.wrote /\ fs = prev
  ELSE /\ After.content =
            Join([k \in 1..Len(BeforeLines) |->
                    IF k \in targets THEN ApkUnmarked(BeforeLines[k]) ELSE BeforeLines[k]])
       /\ last.wrote /\ last.err = ""

C16_EveryNamedPair ==
  ApkEnabling =>
    ApkUncomments({k \in 2..Len(BeforeLines) :
                     /\ BeforeLines[k - 1] = <<"#", " ">> \o last.name
                     /\ ApkCommented(BeforeLines[k])})

\* C16 as the code has it: the name line is compared after trimming white
\* space, and the scan resumes after a line it uncommented, so that line is
\* never taken as a name line itself
RECURSIVE ApkTarget(_, _, _)
ApkTarget(lines, k, name) ==
  /\ k >= 2
  /\ TrimSpace(lines[k - 1]) = <<"#", " ">> \o name
  /\ ApkCommented(lines[k])
  /\ ~ApkTarget(lines, k - 1, name)

C16_ScannedPairs ==
  ApkEnabling =>
    ApkUncomments({k \in 1..Len(BeforeLines) : ApkTarget(BeforeLines, k, last.name)})

\* an enable that uncomments the url line under "# a" and keeps another line
C16_Witness ==
  /\ ApkEnabling /\ last.wrote
  /\ \E k \in 2..Len(BeforeLines) :
       /\ BeforeLines[k - 1] = <<"#", " ">> \o last.name
       /\ BeforeLines[k] = <<"#", " ">> \o UrlA
       /\ Split(After.content)[k] = <<" ">> \o UrlA
  /\ Len(BeforeLines) > 2

(***************************************************************************)
(* C17. Alpine-like disable: every active (non-empty, non-comment) line    *)
(* that contains "/" + name is commented out by prefixing "# ", every      *)
(* other line is left unchanged, and the operation fails with an error and *)
(* writes nothing if no active line matched.                               *)
(***************************************************************************)
\* the active lines that contain "/" + name
ApkMatches(lines, name) ==
  {k \in 1..Len(lines) :
     /\ \E i \in 1..Len(lines[k]) : ~IsSpace(lines[k][i])
     /\ TrimSpace(lines[k])[1] # "#"
     /\ OccursIn(lines[k], <<"/">> \o name)}

C17_ActiveMatchesCommented ==
  (pmType = "alpine" /\ IsDisable /\ Before.exists) =>
    LET targets == ApkMatches(BeforeLines, last.name)
    IN IF targets = {}
       THEN last.err # "" /\ ~last.wrote /\ fs = prev
       ELSE /\ After.content =
                 Join([k \in 1..Len(BeforeLines) |->
                         IF k \in targets THEN <<"#", " ">> \o BeforeLines[k]
                         ELSE BeforeLines[k]])
            /\ last.wrote /\ last.err = ""

\* a disable that comments out a line and leaves a line of another repository
C17_Witness ==
  /\ pmType = "alpine" /\ IsDisable /\ last.wrote
  /\ ApkMatches(BeforeLines, last.name) # {}
  /\ \E k \in 1..Len(BeforeLines) :
       /\ k \notin ApkMatches(BeforeLines, last.name)
       /\ BeforeLines[k] = UrlB
       /\ Split(After.content)[k] = UrlB

(***************************************************************************)
(* C18. Unsupported combinations touch nothing: add-repo, enable-repo and  *)
(* disable-repo on the Arch-like family, and enable-repo and disable-repo  *)
(* on the Homebrew-like family, only print a message: no file is created   *)
(* or modified and no external process is started, for every argument list.*)
(***************************************************************************)
Unsupported ==
  \/ pmType = "arch" /\ (IsAdd \/ IsEnable \/ IsDisable)
  \/ pmType = "macos" /\ (IsEnable \/ IsDisable)

C18_UnsupportedTouchNothing ==
  Unsupported =>
    /\ fs = prev /\ ~last.wrote /\ ~tmp
    /\ procs = <<>>
    /\ last.msg # "" /\ last.err = ""

\* add-repo with a name and a url on an Arch-like host
C18_Witness ==
  /\ pmType = "arch" /\ IsAdd /\ last.args = <<A, PlainUrl>>
  /\ last.msg = "manual" /\ fs = prev /\ procs = <<>>

(***************************************************************************)
(* C19. Homebrew add-repo: on a host whose family is Homebrew, add-repo    *)
(* called with the single tap argument of the README delegates to the      *)
(* native tool by running brew tap <tap>, and edits no file.               *)
(***************************************************************************)
C19_SingleTapRunsBrew ==
  (pmType = "macos" /\ IsAdd /\ Len(last.args) = 1) =>
    (procs = << <<"brew", "tap", last.args[1]>> >> /\ fs = prev)

\* what does hold: the tap is the second of exactly two arguments
C19_SecondOfTwoRunsBrew ==
  (pmType = "macos" /\ IsAdd) =>
    /\ fs = prev
    /\ IF Len(last.args) = 2 THEN procs = << <<"brew", "tap", last.args[2]>> >>
       ELSE procs = <<>> /\ last.msg = "usage"

(***************************************************************************)
(* C20. Section-parser contract (extractAllRepoSections): a section starts *)
(* only at a line that begins with [<id>] and extends to just before the   *)
(* next such line or to the end of the file. Each returned body starts     *)
(* with its own header, contains no other header line, and for a file with *)
(* distinct ids the bodies concatenated in header order equal the content  *)
(* from the first header to the end of the file. When an id occurs more    *)
(* than once the mapping holds the body of its last occurrence.            *)
(***************************************************************************)
\* the positions of s that begin a line
LineBegins(s) == {i \in 1..Len(s) : i = 1 \/ s[i - 1] = NL}

\* the line that begins at i, without its newline
LineFrom(s, i) ==
  LET stops == {j \in i..Len(s) : s[j] = NL}
      stop == IF stops = {} THEN Len(s) + 1 ELSE CHOOSE j \in stops : \A k \in stops : j <= k
  IN SubSeq(s, i, stop - 1)

\* the line is a header line: "[", an id, "]", then anything
IsHeaderLine(line) == Len(line) >= 2 /\ line[1] = "[" /\ \E j \in 2..Len(line) : line[j] = "]"

HeaderLineId(line) ==
  LET j == CHOOSE c \in 2..Len(line) : line[c] = "]" /\ \A k \in 2..(c - 1) : line[k] # "]"
  IN SubSeq(line, 2, j - 1)

SectionHeads(s) == {i \in LineBegins(s) : IsHeaderLine(LineFrom(s, i))}

\* the first header line after position i, or one past the end of the text
NextHeaderLine(s, i) ==
  LET later == {h \in SectionHeads(s) : h > i}
  IN IF later = {} THEN Len(s) + 1 ELSE CHOOSE h \in later : \A k \in later : h <= k

RECURSIVE BodiesFrom(_, _, _)
BodiesFrom(sections, s, i) ==
  IF i > Len(s) THEN <<>>
  ELSE sections[HeaderLineId(LineFrom(s, i))] \o BodiesFrom(sections, s, NextHeaderLine(s, i))

C20_SectionContract ==
  last.op = "extract" =>
    LET s == fs[last.path].content
        sections == last.sections
        heads == SectionHeads(s)
        idOf(h) == HeaderLineId(LineFrom(s, h))
    IN /\ DOMAIN sections = {idOf(h) : h \in heads}
       /\ \A id \in DOMAIN sections :
            LET h == CHOOSE x \in heads : idOf(x) = id /\ \A y \in heads : idOf(y) = id => y <= x
                body == sections[id]
            IN /\ body = SubSeq(s, h, NextHeaderLine(s, h) - 1)
               /\ LitAt(body, 1, Header(id))
               /\ SectionHeads(body) = {1}
       /\ (Cardinality(heads) = Cardinality(DOMAIN sections) /\ heads # {}) =>
            BodiesFrom(sections, s, NextHeaderLine(s, 0)) =
              SubSeq(s, NextHeaderLine(s, 0), Len(s))

\* a bracketed id inside a value starts no section
C20_Witness ==
  /\ last.op = "extract"
  /\ fs[last.path].content = BracketValueRepo
  /\ DOMAIN last.sections = {A, B}
  /\ last.sections[A] = Join(<< Header(A), <<"x", "=">> \o Header(B), <<>> >>)
  /\ last.sections[B] = Header(B)

\* a repeated id keeps the body of its last occurrence
C20_RepeatedIdWitness ==
  /\ last.op = "extract"
  /\ fs[last.path].content = Join(<< Header(A), Header(B), Header(A) >>)
  /\ last.sections = (A :> Header(A)) @@ (B :> Header(B) \o <<NL>>)

(***************************************************************************)
(* C21. Debian-like enable and disable toggle only repository definition   *)
(* lines, the lines recognized by a leading source-type token such as deb: *)
(* every blank line, every unrelated comment and every line that is not a  *)
(* repository definition is left unchanged, for every file content.        *)
(***************************************************************************)
\* the first word of a line once its comment marks and indentation are dropped
RECURSIVE FirstWord(_)
FirstWord(t) == IF t = <<>> \/ IsSpace(t[1]) THEN <<>> ELSE <<t[1]>> \o FirstWord(Tail(t))

SourceTypes == {<<"d", "e", "b">>, <<"d", "e", "b", "-", "s", "r", "c">>}

\* an active or commented-out repository definition
AptDefinition(line) == FirstWord(StripMarks(TrimSpace(line))) \in SourceTypes

AptToggled == pmType = "debian" /\ (IsEnable \/ IsDisable) /\ last.err = ""

C21_OnlyDefinitionsToggled ==
  AptToggled =>
    LET before == Split(Before.content)
        after == Split(After.content)
    IN /\ Len(after) = Len(before)
       /\ \A i \in 1..Len(before) : ~AptDefinition(before[i]) => after[i] = before[i]

\* what does hold: blank lines and comments that do not begin with "# deb" or
\* "#deb" are kept by both; disable marks every other line, definition or not
C21_BlankAndOtherCommentsKept ==
  AptToggled =>
    LET before == Split(Before.content)
        after == Split(After.content)
    IN /\ Len(after) = Len(before)
       /\ \A i \in 1..Len(before) :
            (TrimSpace(before[i]) = <<>>
               \/ (HasPrefix(TrimSpace(before[i]), <<"#">>) /\ ~AptCommented(before[i])))
              => after[i] = before[i]

\* the two departures: enable strips the mark of a note, disable marks a line
\* that is no definition
C21_EnableRewritesNote ==
  /\ AptToggled /\ IsEnable /\ Before.content = Join(<<AptNote, AptOther>>)
  /\ After.content = Join(<< <<"d", "e", "b", "u", "g">>, AptOther >>)

C21_DisableMarksOther ==
  /\ AptToggled /\ IsDisable /\ Before.content = Join(<<AptNote, AptOther>>)
  /\ After.content = Join(<< AptNote, <<"#", " ">> \o AptOther >>)

(***************************************************************************)
(* C22. Lost update under interleaving: a mutator reads the whole file,    *)
(* computes the new content and rewrites the whole file with no lock and   *)
(* no version check. When the file has been modified between its read and  *)
(* its write, the mutator does not detect it: it returns no error and the  *)
(* file holds what it computed from the content it read, so the other      *)
(* writer's change is discarded.                                           *)
(***************************************************************************)
C22_LastWriterWins ==
  [][\A p \in Callers :
       (calls[p].pc = "read" /\ calls'[p].pc = "done"
          /\ fs[calls[p].file].content # calls[p].content) =>
         LET newContent == setRepoEnabled(calls[p].content, calls[p].name, calls[p].enable)
         IN /\ calls'[p].err = ""
            /\ IF newContent = calls[p].content THEN fs' = fs
               ELSE fs'[calls[p].file].content = newContent]_vars

\* enable of a and disable of b, both read enabled=0 / enabled=1, both wrote,
\* and the file keeps only the enable
C22_Witness ==
  /\ steps = 0
  /\ \A p \in Callers : calls[p].pc = "done" /\ calls[p].wrote /\ calls[p].err = ""
  /\ calls[1].enable /\ calls[1].name = A /\ calls[1].content = TwoRepos(<<"0">>, <<"1">>)
  /\ ~calls[2].enable /\ calls[2].name = B /\ calls[2].content = TwoRepos(<<"0">>, <<"1">>)
  /\ fs[YumA].content = TwoRepos(<<"1">>, <<"1">>)

\* another writer's new line is discarded by a write computed from an older read
C22_ForeignEditLost ==
  /\ steps = 1
  /\ calls[1].pc = "done" /\ calls[1].wrote /\ calls[2].pc = "idle"
  /\ prev[YumA].content \in ForeignTexts \ SharedTexts
  /\ fs[YumA].content \in SharedTexts

(***************************************************************************)
(* C23. Non-interactive flag translation: whenever yes mode is on, every   *)
(* native invocation built by ExecuteCommand passes the flag to the        *)
(* package manager itself: the argument vector is the package manager      *)
(* binary followed by -y for apt, apt-get, dnf and yum, or by --noconfirm  *)
(* for pacman, then the translated subcommand and the user's arguments,    *)
(* both when run directly and when run through sudo. brew and apk receive  *)
(* no additional flag, and with yes mode off no flag is added.             *)
(***************************************************************************)
IsExec == last.op = "exec" /\ last.err = ""

\* the flag the package manager takes in yes mode, as a vector
YesFlag(e) ==
  IF ~IsYesMode(e) THEN <<>>
  ELSE IF e.pm \in {"apt", "apt-get", "dnf", "yum"} THEN <<"-y">>
  ELSE IF e.pm = "pacman" THEN <<"--noconfirm">>
  ELSE <<>>

\* the vector of the package manager: binary, flag, subcommand, user arguments
PmVector(e, command, args) ==
  <<e.pm>> \o YesFlag(e) \o PmCommands(e.pm)[command] \o args

ThroughSudo(e) == e.linux /\ ~e.root /\ e.pm # "brew"

\* a command that is run as one process from pm.Commands
Plain(e, command) == ~(command = "autoremove" /\ e.pm \in {"pacman", "brew"})

C23_FlagAfterBinary ==
  (IsExec /\ Plain(env, last.command)) =>
    procs = << (IF ThroughSudo(env) THEN <<"sudo">> ELSE <<>>)
                 \o PmVector(env, last.command, last.args) >>

\* what does hold: the flag follows the binary when the command is run directly;
\* through sudo it is put in front of the binary, as an option of sudo
C23_FlagBeforeBinaryUnderSudo ==
  (IsExec /\ Plain(env, last.command)) =>
    procs = << IF ThroughSudo(env)
               THEN <<"sudo">> \o YesFlag(env) \o <<env.pm>>
                      \o PmCommands(env.pm)[last.command] \o last.args
               ELSE PmVector(env, last.command, last.args) >>

(***************************************************************************)
(* C25. Homebrew never uses sudo: for every command and argument list,     *)
(* when the detected package manager is brew no process is started through *)
(* sudo, on Linux as well as on macOS and whether or not the user is root. *)
(* brew autoremove runs brew autoremove and then brew cleanup, directly.   *)
(***************************************************************************)
C25_BrewNeverSudo ==
  env.pm = "brew" =>
    /\ \A k \in 1..Len(procs) : procs[k][1] = "brew"
    /\ last.op = "exec" =>
         /\ last.err = ""
         /\ IF last.command = "autoremove"
            THEN procs = << <<"brew", "autoremove">>, <<"brew", "cleanup">> >>
            ELSE procs = << <<"brew">> \o PmCommands("brew")[last.command] \o last.args >>

\* brew on Linux, a plain user without sudo, autoremove
C25_Witness ==
  /\ env.pm = "brew" /\ env.linux /\ ~env.root /\ ~env.sudo
  /\ last.op = "exec" /\ last.command = "autoremove"
  /\ procs = << <<"brew", "autoremove">>, <<"brew", "cleanup">> >>

(***************************************************************************)
(* C24. Yes mode answers prompts: when yes mode is on, no operation blocks *)
(* reading a confirmation from standard input; add-repo on an already      *)
(* existing Debian-like or RedHat-like file proceeds as if the answer were *)
(* yes and overwrites the file without prompting.                          *)
(***************************************************************************)
C24_YesModeNeverPrompts ==
  (IsYesMode(env) /\ IsAdd) => ~last.asked

\* what does hold: the prompt is shown in yes mode as without it, and the answer
\* read from standard input alone decides; with nothing to read, add is cancelled
C24_StdinDecides ==
  (IsAdd /\ last.asked) =>
    IF askForConfirmation(last.response)
    THEN last.err # "cancelled"
    ELSE last.err = "cancelled" /\ fs = prev

\* yes mode on, the file exists, nothing on standard input: asked and cancelled
C24_AskedInYesMode ==
  /\ IsYesMode(env) /\ IsAdd /\ pmType = "debian"
  /\ last.asked /\ last.response = <<>> /\ last.err = "cancelled" /\ fs = prev

(***************************************************************************)
(* C26. Privilege elevation of repository commands: on Linux, when the     *)
(* effective user is not root, add-repo, enable-repo and disable-repo (and *)
(* add-key) perform their writes under /etc through sudo, like install or  *)
(* remove; and if sudo is not available the command fails with an explicit *)
(* error before any modification is attempted.                             *)
(***************************************************************************)
IsRepoCommand == IsAdd \/ IsEnable \/ IsDisable

\* the command reached the write of its target
ReachedWrite == last.fault = "open" \/ last.wrote

StartedSudo == \E k \in 1..Len(procs) : procs[k][1] = "sudo"

C26_RepoCommandsElevate ==
  (env.linux /\ ~env.root /\ IsRepoCommand /\ ReachedWrite) =>
    IF env.sudo THEN StartedSudo /\ last.err = ""
    ELSE last.err = "no_sudo" /\ fs = prev

\* what does hold: a repository command never starts sudo and never looks for
\* it; a plain user's write is refused by the system and the command reports
\* the failed write
C26_RepoCommandsNeverElevate ==
  IsRepoCommand =>
    /\ ~StartedSudo
    /\ last.err # "no_sudo"
    /\ (env.linux /\ ~env.root /\ ReachedWrite) => (last.err = "write" /\ fs = prev)

\* a plain user with sudo: enable-repo reaches its write and fails on it
C26_PlainUserRefused ==
  /\ env.linux /\ ~env.root /\ env.sudo /\ IsEnable
  /\ last.fault = "open" /\ last.err = "write" /\ procs = <<>>

\* the package commands do elevate: a plain user's install goes through sudo
C26_InstallElevates ==
  /\ env.linux /\ ~env.root /\ env.sudo /\ last.op = "exec" /\ last.command = "install"
  /\ StartedSudo

(***************************************************************************)
(* C27. Key download failure leaves the key untouched: when add-key fails  *)
(* because the fetch fails (a transport error or a non-success status), it *)
(* returns an error and the destination key file is in its prior state: an *)
(* existing key file keeps its content and a missing one is not created.   *)
(***************************************************************************)
IsAddKey == last.op = "addkey"

FetchFailed == IsAddKey /\ last.err \in {"fetch", "status"}

C27_FailedFetchKeepsKey == FetchFailed => fs = prev

\* what does hold: the key file is created or truncated before the fetch, so
\* after a failed fetch it exists and is empty
C27_FailedFetchEmptiesKey ==
  FetchFailed => fs = [prev EXCEPT ![last.path] = File(<<>>)]

\* an existing key is emptied by a fetch that fails
C27_ExistingKeyEmptied ==
  /\ FetchFailed /\ pmType = "debian" /\ last.err = "fetch"
  /\ prev[last.path] = File(<<"o", "l", "d">>)
  /\ fs[last.path] = File(<<>>)

(***************************************************************************)
(* C28. Section boundary in the regex-based rewriters: enableRepoInContent *)
(* and disableRepoInContent never scan past the next section boundary: for *)
(* every multi-section content they change or insert an enabled= line only *)
(* inside the section headed [id] and leave every line of every other      *)
(* section unchanged, also when the target section has no enabled key and  *)
(* a later section has one.                                                *)
(***************************************************************************)
IsRewrite == last.op \in {"enableInContent", "disableInContent"}

\* the lines that do not belong to a section headed [id], in order; cur is the
\* id of the section the scan is in
RECURSIVE OutsideFrom(_, _, _, _)
OutsideFrom(lines, k, cur, id) ==
  IF k > Len(lines) THEN <<>>
  ELSE LET now == IF IsHeaderLine(lines[k]) THEN <<HeaderLineId(lines[k])>> ELSE cur
       IN (IF now = <<id>> THEN <<>> ELSE <<lines[k]>>) \o OutsideFrom(lines, k + 1, now, id)

Outside(content, id) == OutsideFrom(Split(content), 1, <<>>, id)

C28_OnlyTargetSection ==
  IsRewrite => Outside(last.out, last.name) = Outside(fs[last.path].content, last.name)

\* disable of a rewrites the key of the section [b] that follows
C28_LaterSectionRewritten ==
  /\ last.op = "disableInContent" /\ last.name = A
  /\ fs[last.path].content = TwoRepos(<<"0">>, <<"1">>)
  /\ last.out = TwoRepos(<<"0">>, <<"0">>)

\* what does hold: the first enabled= line with the other value that follows
\* the text [id] is rewritten, whichever section holds it
C28_FirstKeyAfterHeaderText ==
  IsRewrite =>
    LET content == fs[last.path].content
        old == EnabledKey \o (IF last.op = "enableInContent" THEN <<"0">> ELSE <<"1">>)
        new == EnabledKey \o (IF last.op = "enableInContent" THEN <<"1">> ELSE <<"0">>)
        h == FirstAt(content, Header(last.name), 1)
        k == IF h = 0 THEN 0 ELSE FirstAt(content, old, h + Len(Header(last.name)))
    IN k # 0 =>
         /\ Len(last.out) = Len(content)
         /\ SubSeq(last.out, 1, k - 1) = SubSeq(content, 1, k - 1)
         /\ LitAt(last.out, k, new)

(***************************************************************************)
(* C29. RedHat-like postcondition: whenever enableRepoDnfYum(id) returns   *)
(* without error, whether it wrote or reported already enabled, the file   *)
(* chosen by findRepoFile holds in its section for id exactly one enabled= *)
(* line and that line is enabled=1; symmetrically for disableRepoDnfYum    *)
(* and enabled=0. This holds for every content for which findRepoFile      *)
(* reports found, header lines with trailing text included.                *)
(***************************************************************************)
YumSetReturnedNil ==
  pmType = "redhat" /\ (IsEnable \/ IsDisable) /\ last.err = "" /\ last.path # <<>>

\* the lines findRepoFile takes for the header of id: those that begin with [id]
LocatedHeaders(lines, id) == {h \in 1..Len(lines) : HasPrefix(lines[h], Header(id))}

C29_OneKeyWithRequestedValue ==
  YumSetReturnedNil =>
    LET lines == Split(After.content)
    IN \A h \in LocatedHeaders(lines, last.name) :
         /\ Cardinality(EnabledLines(lines, h)) = 1
         /\ \A k \in EnabledLines(lines, h) : lines[k] = EnabledKey \o Requested

\* what does hold: the postcondition for a file whose only line that begins
\* with [id] is the header [id] and nothing else
C29_PlainHeaderPostcondition ==
  (YumSetReturnedNil
     /\ LET lines == Split(Before.content)
        IN /\ Cardinality(LocatedHeaders(lines, last.name)) = 1
           /\ LocatedHeaders(lines, last.name) = HeaderLines(lines, last.name)) =>
    LET lines == Split(After.content)
    IN \A h \in LocatedHeaders(lines, last.name) :
         /\ Cardinality(EnabledLines(lines, h)) = 1
         /\ \A k \in EnabledLines(lines, h) : lines[k] = EnabledKey \o Requested

\* a header with trailing text: enable finds the file, changes nothing and
\* returns nil, and the section still reads enabled=0
C29_ReportedEnabledButDisabled ==
  /\ YumSetReturnedNil /\ IsEnable /\ last.name = A
  /\ Before.content = TrailingTextRepo
  /\ ~last.wrote /\ After.content = TrailingTextRepo

(***************************************************************************)
(* C30. Alpine-like add/disable/enable round trip: after addRepoAlpine has *)
(* appended its block for a name and url, disableRepoAlpine(name) succeeds *)
(* and comments out exactly the url line that add wrote, and a following   *)
(* enableRepoAlpine(name) succeeds and restores the file byte-identical to *)
(* its content right after add.                                            *)
(***************************************************************************)
ApkChain(ops) == pmType = "alpine" /\ since.ops = ops

\* the content add left, with "# " put before the url line of the block
\* add appended (the last line but one: the block ends in a newline)
ApkUrlLineCommented ==
  LET lines == Split(since.content)
      u == Len(lines) - 1
  IN Join([lines EXCEPT ![u] = <<"#", " ">> \o @])

C30_RoundTrip ==
  /\ ApkChain(<<"add", "disable">>) =>
       /\ last.err = ""
       /\ fs[ApkRepositories].content = ApkUrlLineCommented
  /\ ApkChain(<<"add", "disable", "enable">>) =>
       /\ last.err = ""
       /\ fs[ApkRepositories].content = since.content

\* the disable that follows an add finds nothing when the url has no "/<name>"
C30_DisableMissesAddedUrl ==
  /\ ApkChain(<<"add", "disable">>)
  /\ last.err = "not_found" /\ ~last.wrote
  /\ fs[ApkRepositories].content = since.content

\* the round trip with both steps successful leaves the url line with the
\* space that followed the mark
C30_RestoredWithLeadingSpace ==
  /\ ApkChain(<<"add", "disable", "enable">>)
  /\ last.err = "" /\ last.wrote
  /\ LET was == Split(since.content)
         now == Split(fs[ApkRepositories].content)
         u == Len(was) - 1
     IN /\ Len(now) = Len(was)
        /\ now[u] = <<" ">> \o was[u]
        /\ \A i \in 1..Len(was) : i # u => now[i] = was[i]

====
